---- MODULE Spec2Model ----
(***************************************************************************)
(* Aperture: agent ingest-to-push pipeline and aggregator                  *)
(* ingest-store-aggregate pipeline.                                        *)
(*                                                                         *)
(* The module holds one state machine per subsystem.  Every subsystem has  *)
(* its own variables, initial predicate, actions and specification; a      *)
(* specification parks the variables of the other subsystems at a fixed    *)
(* value.                                                                  *)
(*   SpecBuffer     aggregator ring buffer + gRPC Push handler             *)
(*   SpecAgent      collector, reader tasks, streaming pusher, shutdown    *)
(*   SpecStore      ClickHouse buffered store                              *)
(*   SpecAuth       bearer-token check                                     *)
(*   SpecAggregate  aggregation engine                                     *)
(***************************************************************************)
EXTENDS Integers, Sequences, FiniteSets, TLC

VARIABLES
  \* ---- aggregator ring buffer and Push handlers (buffer.rs, grpc.rs) ----
  max_batches,    \* InMemoryBuffer.max_batches
  batches,        \* InMemoryBuffer.batches (front = oldest)
  buffer_drops,   \* metrics::BUFFER_DROPS
  clock,          \* SystemTime::now() as a logical clock: number of pushes so far
  hpc,            \* per Push handler: "idle" | "appended" (between buffer.push and the response)
  hLenAppend,     \* per Push handler: buffer length right after its own append
  lastResp,       \* the latest PushResponse sent
  batch_store,    \* AggregatorService.batch_store is Some
  hBatch,         \* per Push handler: the request payload and the batch it built
  lastAppend,     \* history: the latest buffer.push: request payload and batch appended
  \* ---- agent: collector, readers, streaming pusher, shutdown (agent/src/lib.rs) ----
  mode,           \* "cpu" | "syscall": which profiler (and collector) runs
  serverMode,     \* "any": the aggregator answers arbitrarily; "split": it rejects
                  \* every payload of two or more events as too large, accepts the rest
  samples,        \* collector's event vector (CpuCollector.samples / SyscallCollector.events)
  push_cursor,    \* collector's push_cursor
  readersAlive,   \* the per-CPU reader tasks have not been aborted
  phase,          \* run_*_profiler: "running" | "pusher_aborted" | "readers_aborted" | "final" | "done"
  ppc,            \* streaming pusher task: "sleep" | "push" | "aborted" | "exited"
  push_interval,  \* streaming pusher's adaptive interval (ms)
  client,         \* the cached connection of the current pusher: "none" | "conn"
  PUSH_SEQUENCE,  \* the global sequence counter
  job,            \* the running push_to_aggregator_with_retry call: owner ("none" |
                  \* "stream" | "final"), pc ("idle" | "call" | "loop" | "backoff"),
                  \* events, attempt, delay (ms), queue, last_backpressure, and the
                  \* history of the latest call: outcomes (per attempt), sleeps,
                  \* accepted (payloads the server took), result
  delivered,      \* history: events the server accepted from streaming pushes
  finalEvents,    \* history: the events the final drain handed to the final push
  lastTake,       \* history: the latest take_pending_events call, and all that the calls returned
  initial_interval, \* config.push_interval() (ms)
  lastAdjust,     \* history: the streaming loop's latest match on a push result
  otherSent,      \* Push RPCs sent so far by a concurrently running profiler's pusher
  lastSeq,        \* history: per pusher, the sequence of the latest Push it sent (0: none)
  sentSeqs,       \* history: the sequence numbers sent so far
  lastSent,       \* history: the latest Push sent: pusher, seq, the pusher's previous seq,
                  \* and whether seq had been sent before
  rpcLog,         \* history: the answer to the latest Push of the profiler's own pusher,
                  \* kept only by the specification that observes the answers
  \* ---- ClickHouse store (aggregator/src/storage/clickhouse.rs) ----
  pending,        \* ClickHouseStore.pending
  nextRow,        \* rows accepted by write_batch so far (row ids are 1..nextRow)
  insertLog,      \* the table: the successful bulk inserts, in order
  cancelled,      \* ClickHouseStore.cancel has been cancelled
  notified,       \* flush_notify holds a permit
  bgpc,           \* background flush task: "wait" | "insert" | "exited"
  bgRows,         \* the rows its do_flush swapped out
  bgLabel,        \* what woke it: "timer" | "threshold" | "shutdown"
  qpc,            \* a store query: "idle" | "insert" (inside flush) | "select"
  qRows,          \* the rows its flush swapped out
  qStart,         \* history: nextRow when the query began
  lastQuery,      \* history: the latest finished query (start, rows its SELECT saw)
  sdpc,           \* ClickHouseStore::shutdown: "running" | "await" | "insert" | "done" | "failed"
  sdRows,         \* the rows its flush swapped out
  takeLog,        \* history: the rows each flusher has swapped out of pending
  \* ---- bearer-token check (aggregator/src/server/grpc.rs, auth.rs) ----
  auth_token,     \* the configured token: Option<String>
  authHeader,     \* the latest request's authorization metadata: Option<bytes>
  authImpl,       \* which check handled it: "none" | "check_auth" | "interceptor"
  authResult,     \* its result: "Ok" | "Unauthenticated"
  authAudit,      \* the audit record it emitted
  \* ---- aggregation engine (aggregator/src/aggregate.rs) ----
  aggInput,       \* the payload list passed to aggregate_batches
  aggIdx,         \* the payload the loop is at
  aggAcc,         \* cpu / lock / syscall / total_events so far
  aggPc,          \* "run" | "ok" | "err": running, returned Ok(result), returned Err
  \* ---- gRPC handlers' results (aggregator/src/server/grpc.rs) ----
  rpcCall,        \* the latest call handled: method and what it met below the surface
  rpcReply,       \* what the handler returned: a response message or an error status
  lastBufQuery,   \* the latest Query answered from the ring buffer: request and batches returned
  \* ---- alert store (aggregator/src/alerts.rs) ----
  rules,          \* AlertStoreInner.rules
  history,        \* AlertStoreInner.history (front = oldest)
  next_id,        \* AlertStoreInner.next_id
  now,            \* SystemTime::now() in seconds, as a logical clock
  evaluations,    \* evaluate calls in this run
  issuedIds,      \* history: the ids create_rule has returned, in order
  firedLog,       \* history: every event evaluate has fired, in firing order
  lastEval,       \* history: the latest evaluate call: snapshot, the rules it saw, its result
  \* ---- admin API, /api/aggregate (aggregator/src/server/api.rs) ----
  apiCall,        \* the latest /api/aggregate request: what it met and what it answered
  \* ---- wire codec (shared/src/protocol/wire.rs) ----
  wireIn,         \* what is put on the wire: a Message, a LegacyMessage or raw bytes
  wireBytes,      \* the payload
  wireOut,        \* what Message::from_bytes made of the payload
  wirePc,         \* "start" | "encoded" | "decoded"
  \* ---- syscall latency histogram (shared/src/types/profile.rs) ----
  sysProfile,     \* a SyscallProfile
  sysRecorded,    \* the syscalls recorded into it so far
  \* ---- diff engine (shared/src/types/diff.rs) ----
  diffIn,         \* the kind and the two profiles a and b
  diffFwd,        \* diff(a, b)
  diffRev,        \* diff(b, a)
  diffPc,         \* "start" | "done"
  \* ---- retry_with_backoff (agent/src/retry.rs) ----
  retryIn,        \* max_attempts, initial_delay and what each call of f will return
  retryAttempt,   \* the loop variable of `for attempt in 1..=max_attempts`
  retryDelay,     \* the next sleep, in milliseconds
  retryLastErr,   \* last_err, an Option<E>: <<>> or <<e>>
  retryCalls,     \* how many times f was called
  retrySleeps,    \* the sleeps taken, in order
  retryPc,        \* "call" | "sleep" | "returned" | "panicked"
  retryResult,    \* the Result returned
  \* ---- run_cpu_profiler, tasks and handles (agent/src/lib.rs) ----
  cpConfig,       \* whether aggregator_url is set
  cpPhase,        \* where the main task is
  cpReaders,      \* per reader task: "read" | "lock" | "process" | "gone"
  cpPusher,       \* the streaming push task: "none" | "sleep" | "push" | "gone"
  cpAborted,      \* the tasks whose handle was aborted
  cpHolders,      \* who holds a clone of the collector Arc
  cpStackHolders, \* who holds a clone of the stack_map Arc
  cpSamples,      \* how many samples the collector holds
  cpCursor,       \* its push_cursor
  cpLog,          \* the shutdown steps taken, in order
  cpDrain,        \* the final take_pending_events: done, len, taken
  cpRing,         \* per reader: the records read_events has returned from its ring buffer
  cpBatch,        \* per reader: the records of the latest read_events still to be handled
  cpEvents,       \* the collector's samples: <<cpu, position in that cpu's ring buffer>>
  \* ---- timestamps of the store (aggregator/src/storage/clickhouse.rs) ----
  tsRows,         \* the rows enqueued: received_at_ns as passed, received_at_ms as stored
  tsQuery         \* the latest fetch_batches: the range as passed and as bound

bufVars == <<max_batches, batches, buffer_drops, clock, hpc, hLenAppend, lastResp,
             batch_store, hBatch, lastAppend>>

collVars == <<samples, push_cursor, lastTake>>

seqVars == <<PUSH_SEQUENCE, otherSent, lastSeq, sentSeqs, lastSent, rpcLog>>

agentVars == <<mode, serverMode, initial_interval, readersAlive, phase, ppc, push_interval,
               lastAdjust, client, job, delivered, finalEvents, collVars, seqVars>>

storeVars == <<pending, nextRow, insertLog, cancelled, notified, bgpc, bgRows, bgLabel,
               qpc, qRows, qStart, lastQuery, sdpc, sdRows, takeLog>>

authVars == <<auth_token, authHeader, authImpl, authResult, authAudit>>

aggVars == <<aggInput, aggIdx, aggAcc, aggPc>>

rpcVars == <<rpcCall, rpcReply, lastBufQuery>>

alertVars == <<rules, history, next_id, now, evaluations, issuedIds, firedLog, lastEval>>

coreVars == <<bufVars, agentVars, storeVars, authVars, aggVars, rpcVars, alertVars>>

apiVars == <<apiCall>>

wireVars == <<wireIn, wireBytes, wireOut, wirePc>>

histVars == <<sysProfile, sysRecorded>>

diffVars == <<diffIn, diffFwd, diffRev, diffPc>>

retryVars == <<retryIn, retryAttempt, retryDelay, retryLastErr, retryCalls, retrySleeps, retryPc, retryResult>>

cpOrderVars == <<cpRing, cpBatch, cpEvents>>

cpVars == <<cpConfig, cpPhase, cpReaders, cpPusher, cpAborted, cpHolders, cpStackHolders,
            cpSamples, cpCursor, cpLog, cpDrain, cpOrderVars>>

tsVars == <<tsRows, tsQuery>>

libVars == <<apiVars, wireVars, histVars, diffVars, retryVars, cpVars, tsVars>>

\* what the actions of one library subsystem leave alone
besidesApi == <<coreVars, wireVars, histVars, diffVars, retryVars, cpVars, tsVars>>
besidesWire == <<coreVars, apiVars, histVars, diffVars, retryVars, cpVars, tsVars>>
besidesHist == <<coreVars, apiVars, wireVars, diffVars, retryVars, cpVars, tsVars>>
besidesDiff == <<coreVars, apiVars, wireVars, histVars, retryVars, cpVars, tsVars>>
besidesRetry == <<coreVars, apiVars, wireVars, histVars, diffVars, cpVars, tsVars>>
besidesCp == <<coreVars, apiVars, wireVars, histVars, diffVars, retryVars, tsVars>>
besidesTs == <<coreVars, apiVars, wireVars, histVars, diffVars, retryVars, cpVars>>

vars == <<coreVars, libVars>>

\* ------------------------------------------------------------------------
\* Generic helpers
\* ------------------------------------------------------------------------
Range(s) == {s[i] : i \in 1..Len(s)}

Min(a, b) == IF a < b THEN a ELSE b

Max(a, b) == IF a > b THEN a ELSE b

\* ------------------------------------------------------------------------
\* Bounds
\* ------------------------------------------------------------------------
MaxCap == 5        \* largest max_batches tried
MaxPushes == 6     \* Push RPCs handled in one run

AgentIds == {"a1", "a2"}

Handlers == {"h1", "h2"}

\* A push payload: opaque bytes that either wire-decode to a Message with
\* `events` events or do not decode at all.
PushPayloads == {[decodes |-> TRUE, events |-> 2], [decodes |-> FALSE, events |-> 3]}

\* the PushRequests tried: agent_id and payload
PushRequests ==
  {r \in [agent_id : AgentIds, payload : PushPayloads] : r.agent_id = "a1" \/ r.payload.decodes}

\* ------------------------------------------------------------------------
\* Ring buffer (aggregator/src/buffer.rs)
\* ------------------------------------------------------------------------
\* event_count of a pushed payload: decode failure is not fatal, it counts 0
EventCountUnchecked(payload) == payload.events

EventCount(payload) == IF payload.decodes THEN payload.events ELSE 0

\* while batches.len() > max_batches { pop_front }
RECURSIVE DropOldest(_, _)
DropOldest(bs, cap) == IF Len(bs) > cap THEN DropOldest(Tail(bs), cap) ELSE bs

BufferPushNoDrop(bs, cap, b) == Append(bs, b)

BufferPushDropsToHalf(bs, cap, b) ==
  IF Len(bs) + 1 > cap THEN DropOldest(Append(bs, b), cap \div 2) ELSE Append(bs, b)

\* InMemoryBuffer::push: push_back, then drop from the front while over capacity
BufferPush(bs, cap, b) == DropOldest(Append(bs, b), cap)

\* InMemoryBuffer::utilization as the fraction <<numerator, denominator>>
Utilization(len, cap) == IF cap = 0 THEN <<0, 1>> ELSE <<len, cap>>

\* `utilization() > 0.8`.  len/cap is correctly rounded, so it equals the
\* literal 0.8 exactly when 5*len = 4*cap, and otherwise differs from it by
\* far more than one ulp: the f64 comparison is the rational one.
IsBackpressureAtLeast(u) == u[1] * 10 >= 8 * u[2]

IsBackpressure(u) == u[1] * 10 > 8 * u[2]

\* BASE64.encode / BASE64.decode of payload bytes
Base64Encode(bytes) == <<"base64", bytes>>

Base64Decode(text) == text[2]

NoBatch == [request |-> <<>>, batch |-> <<>>]

NoResp ==
  [ok |-> FALSE, backpressure |-> FALSE, lenAppend |-> 0, lenRespond |-> 0,
   request |-> <<>>, batch |-> <<>>, row |-> <<>>, earlier |-> FALSE]

\* the BatchRow enqueue_batch builds for a batch
StoreRow(agent, sequence, event_count, payload) ==
  [agent_id |-> agent, sequence |-> sequence, event_count |-> event_count,
   payload |-> Base64Encode(payload)]

InitBuffer ==
  /\ max_batches \in 0..MaxCap
  /\ batches = <<>>
  /\ buffer_drops = 0
  /\ clock = 0
  /\ hpc = [h \in Handlers |-> "idle"]
  /\ hLenAppend = [h \in Handlers |-> 0]
  /\ lastResp = NoResp
  /\ batch_store \in BOOLEAN
  /\ hBatch = [h \in Handlers |-> NoBatch]
  /\ lastAppend = NoBatch

ParkedBuffer ==
  /\ max_batches = 0
  /\ batches = <<>>
  /\ buffer_drops = 0
  /\ clock = 0
  /\ hpc = [h \in Handlers |-> "idle"]
  /\ hLenAppend = [h \in Handlers |-> 0]
  /\ lastResp = NoResp
  /\ batch_store = FALSE
  /\ hBatch = [h \in Handlers |-> NoBatch]
  /\ lastAppend = NoBatch

\* AggregatorService::push up to and including buffer.push: decode the payload
\* to count events, append under the write lock, drop the oldest.
PushAppend(h, agent, payload) ==
  /\ hpc[h] = "idle"
  /\ clock < MaxPushes
  /\ LET b == [agent_id |-> agent, sequence |-> clock + 1,
               event_count |-> EventCount(payload),
               received_at_ns |-> clock + 1, payload |-> payload]
         nb == BufferPush(batches, max_batches, b)
     IN /\ batches' = nb
        /\ buffer_drops' = buffer_drops + (Len(batches) + 1 - Len(nb))
        /\ hLenAppend' = [hLenAppend EXCEPT ![h] = Len(nb)]
        /\ hBatch' = [hBatch EXCEPT ![h] = [request |-> <<payload>>, batch |-> <<b>>]]
        /\ lastAppend' = [request |-> <<payload>>, batch |-> <<b>>]
  /\ clock' = clock + 1
  /\ hpc' = [hpc EXCEPT ![h] = "appended"]
  /\ UNCHANGED <<max_batches, lastResp, batch_store, agentVars, storeVars, authVars, aggVars, rpcVars, alertVars, libVars>>

\* AggregatorService::push after the store write: read the utilization (a
\* second lock acquisition) and answer.
PushRespond(h) ==
  /\ hpc[h] = "appended"
  /\ lastResp' = [ok |-> TRUE,
                  backpressure |-> IsBackpressure(Utilization(Len(batches), max_batches)),
                  lenAppend |-> hLenAppend[h],
                  lenRespond |-> Len(batches),
                  request |-> hBatch[h].request,
                  batch |-> hBatch[h].batch,
                  row |-> IF batch_store
                            THEN LET b == hBatch[h].batch[1]
                                 IN <<StoreRow(b.agent_id, b.sequence, b.event_count, b.payload)>>
                            ELSE <<>>,
                  \* history: an earlier successful response reported backpressure
                  earlier |-> lastResp.earlier \/ (lastResp.ok /\ lastResp.backpressure)]
  /\ hpc' = [hpc EXCEPT ![h] = "idle"]
  /\ hBatch' = [hBatch EXCEPT ![h] = NoBatch]
  /\ UNCHANGED <<max_batches, batches, buffer_drops, clock, hLenAppend, batch_store, lastAppend,
                 agentVars, storeVars, authVars, aggVars, rpcVars, alertVars, libVars>>

NextBuffer ==
  \/ \E h \in Handlers, req \in PushRequests : PushAppend(h, req.agent_id, req.payload)
  \/ \E h \in Handlers : PushRespond(h)

\* ------------------------------------------------------------------------
\* Agent: collector, reader tasks, streaming pusher, shutdown
\* (agent/src/lib.rs, agent/src/collector/*.rs)
\* ------------------------------------------------------------------------
MaxEvents == 4     \* events the probes emit in one run
MaxRpcs == 7       \* Push RPCs the agent issues in one run
MaxOtherRpcs == 2  \* of them, by the concurrently running profiler

PUSH_INTERVAL == 5000         \* ms, the default initial push interval
PUSH_INTERVAL_MAX == 30000    \* ms
InitialBackoff == 500         \* ms, Duration::from_millis(500)
MaxAttempts == 3              \* for attempt in 1..=3

\* CpuCollector::take_pending_events: the slice since the cursor; cursor := len
CpuTakePendingKeepsCursor(s, c) == [events |-> SubSeq(s, c + 1, Len(s)), cursor |-> c]

CpuTakePendingFromStart(s, c) == [events |-> s, cursor |-> Len(s)]

CpuTakePendingSkipsOne(s, c) == [events |-> SubSeq(s, c + 2, Len(s)), cursor |-> Len(s)]

CpuTakePendingEvents(s, c) == [events |-> SubSeq(s, c + 1, Len(s)), cursor |-> Len(s)]

\* SyscallCollector::take_pending_events
SyscallTakePendingEvents(s, c) == [events |-> SubSeq(s, c + 1, Len(s)), cursor |-> Len(s)]

TakePending(m, s, c) ==
  IF m = "cpu" THEN CpuTakePendingEvents(s, c) ELSE SyscallTakePendingEvents(s, c)

\* chunk.split_at(chunk.len() / 2); second pushed to the front, then first
SplitChunkSwapped(chunk) ==
  LET mid == Len(chunk) \div 2
  IN <<SubSeq(chunk, mid + 1, Len(chunk)), SubSeq(chunk, 1, mid)>>

SplitChunk(chunk) ==
  LET mid == Len(chunk) \div 2
  IN <<SubSeq(chunk, 1, mid), SubSeq(chunk, mid + 1, Len(chunk))>>

\* push_to_aggregator_with_retry, the Err arm: sleep and double the delay
\* while attempt < 3, give up after the third attempt
RetryDecisionNoLimit(attempt, delay) ==
  [retry |-> attempt <= MaxAttempts, sleep |-> delay, delay |-> Min(delay * 2, PUSH_INTERVAL_MAX)]

RetryDecision(attempt, delay) ==
  IF attempt < MaxAttempts
    THEN [retry |-> TRUE, sleep |-> delay, delay |-> Min(delay * 2, PUSH_INTERVAL_MAX)]
    ELSE [retry |-> FALSE, sleep |-> 0, delay |-> delay]

\* the streaming loop's match on the push result
AfterStreamingPushNoClamp(r, interval) ==
  [pc |-> "sleep",
   interval |-> IF r.ok /\ r.bp = "true" THEN interval + interval
                ELSE IF r.ok THEN initial_interval
                ELSE interval]

AfterStreamingPush(r, interval) ==
  [pc |-> "sleep",
   interval |-> IF r.ok /\ r.bp = "true" THEN Min(interval + interval, PUSH_INTERVAL_MAX)
                ELSE IF r.ok THEN initial_interval
                ELSE interval]

\* `if is_message_too_large(&e) && chunk.len() > 1`
ShouldSplitAnyLength(outcome, chunk) == outcome = "too_large"

ShouldSplit(outcome, chunk) == outcome = "too_large" /\ Len(chunk) > 1

\* `if is_connection_error { *client = None; }`
DropOnErrorNever(outcome, c) == c

DropOnError(outcome, c) == IF outcome = "connection" THEN "none" ELSE c

\* what one Push RPC can come back with
RpcOutcomes == {"ok", "ok_backpressure", "too_large", "connection", "other"}

ServerAnswers(sm, chunk) ==
  IF sm = "split" THEN (IF Len(chunk) >= 2 THEN {"too_large"} ELSE {"ok"})
  ELSE RpcOutcomes

\* Result<Option<bool>>: ok, and bp = "None" | "true" | "false"
NoResult == [returned |-> FALSE, ok |-> FALSE, bp |-> "None"]

IdleJob ==
  [owner |-> "none", pc |-> "idle", events |-> <<>>, attempt |-> 0, delay |-> 0,
   queue |-> <<>>, last_backpressure |-> "None", outcomes |-> <<>>, sleeps |-> <<>>,
   accepted |-> <<>>, result |-> NoResult]

\* entry of push_to_aggregator_with_retry
NewJob(owner, events) ==
  [owner |-> owner, pc |-> "call", events |-> events, attempt |-> 1, delay |-> InitialBackoff,
   queue |-> <<>>, last_backpressure |-> "None", outcomes |-> <<>>, sleeps |-> <<>>,
   accepted |-> <<>>, result |-> NoResult]

\* push_to_aggregator_with_retry returns r
Returned(j, r) ==
  [j EXCEPT !.owner = "none", !.pc = "idle", !.queue = <<>>, !.result = r,
            !.outcomes = Append(@, IF r.ok THEN "ok" ELSE "err")]

\* push_to_aggregator returned Err in attempt j.attempt
FailAttempt(j) ==
  LET d == RetryDecision(j.attempt, j.delay)
  IN IF d.retry
       THEN [j EXCEPT !.pc = "backoff", !.queue = <<>>, !.delay = d.delay,
                      !.sleeps = Append(@, d.sleep), !.outcomes = Append(@, "err")]
       ELSE Returned(j, [returned |-> TRUE, ok |-> FALSE, bp |-> "None"])

\* the caller of push_to_aggregator_with_retry goes on once it has returned
Settle(nj) ==
  /\ job' = nj
  /\ IF nj.owner # "none"
       THEN UNCHANGED <<ppc, push_interval, lastAdjust, phase>>
       ELSE IF job.owner = "stream"
         THEN LET a == AfterStreamingPush(nj.result, push_interval)
              IN /\ ppc' = a.pc
                 /\ push_interval' = a.interval
                 /\ lastAdjust' = [done |-> TRUE, before |-> push_interval,
                                   result |-> nj.result, after |-> a.interval]
                 /\ UNCHANGED phase
         ELSE phase' = "done" /\ UNCHANGED <<ppc, push_interval, lastAdjust>>

NoTake == [old |-> 0, new |-> 0, len |-> 0, returned |-> <<>>, all |-> <<>>]

\* Config::push_interval: push_interval_secs, or 5 s when it is not set
ConfigPushInterval(push_interval_secs) ==
  IF push_interval_secs = <<>> THEN PUSH_INTERVAL ELSE 1000 * push_interval_secs[1]

PushIntervalSecs == {<<>>, <<40>>}

NoAdjust == [done |-> FALSE, before |-> 0, result |-> NoResult, after |-> 0]

\* the pushers of one agent process: the modelled profiler's (streaming, then
\* final) and one of a profiler running concurrently under ProfileMode::All
Pushers == {"own", "other"}

NoSent == [pusher |-> "none", seq |-> 0, prev |-> 0, repeated |-> FALSE]

\* PUSH_SEQUENCE.fetch_add(1, Ordering::Relaxed): the value read and the value
\* left, in one atomic step
FetchAddNone(counter) == [sequence |-> counter, counter |-> counter]

FetchAdd(counter) == [sequence |-> counter, counter |-> counter + 1]

\* push_with_client takes its sequence number and sends the request
SendPush(pusher) ==
  LET f == FetchAdd(PUSH_SEQUENCE)
  IN /\ PUSH_SEQUENCE' = f.counter
     /\ lastSeq' = [lastSeq EXCEPT ![pusher] = f.sequence]
     /\ sentSeqs' = sentSeqs \cup {f.sequence}
     /\ lastSent' = [pusher |-> pusher, seq |-> f.sequence, prev |-> lastSeq[pusher],
                     repeated |-> f.sequence \in sentSeqs]

InitAgent ==
  /\ mode \in {"cpu", "syscall"}
  /\ initial_interval \in {ConfigPushInterval(c) : c \in PushIntervalSecs}
  /\ serverMode \in {"any", "split"}
  /\ samples = <<>>
  /\ push_cursor = 0
  /\ readersAlive = TRUE
  /\ phase = "running"
  /\ ppc = "sleep"
  /\ push_interval = initial_interval
  /\ lastAdjust = NoAdjust
  /\ client = "none"
  /\ PUSH_SEQUENCE = 1
  /\ otherSent = 0
  /\ lastSeq = [p \in Pushers |-> 0]
  /\ sentSeqs = {}
  /\ lastSent = NoSent
  /\ rpcLog = <<>>
  /\ job = IdleJob
  /\ delivered = {}
  /\ finalEvents = <<>>
  /\ lastTake = NoTake

ParkedAgent ==
  /\ mode = "cpu"
  /\ initial_interval = PUSH_INTERVAL
  /\ serverMode = "any"
  /\ samples = <<>>
  /\ push_cursor = 0
  /\ readersAlive = TRUE
  /\ phase = "running"
  /\ ppc = "sleep"
  /\ push_interval = initial_interval
  /\ lastAdjust = NoAdjust
  /\ client = "none"
  /\ PUSH_SEQUENCE = 1
  /\ otherSent = 0
  /\ lastSeq = [p \in Pushers |-> 0]
  /\ sentSeqs = {}
  /\ lastSent = NoSent
  /\ rpcLog = <<>>
  /\ job = IdleJob
  /\ delivered = {}
  /\ finalEvents = <<>>
  /\ lastTake = NoTake

\* a per-CPU reader task: read_events, lock the collector, process_event
ReaderAdd ==
  /\ readersAlive
  /\ Len(samples) < MaxEvents
  /\ samples' = Append(samples, Len(samples) + 1)
  /\ UNCHANGED <<mode, serverMode, initial_interval, readersAlive, phase, ppc, push_interval, lastAdjust, client,
                 seqVars, job, delivered, finalEvents, push_cursor, lastTake, bufVars, storeVars, authVars, aggVars, rpcVars, alertVars, libVars>>

\* streaming pusher: the sleep is over; lock, take_pending_events, unlock,
\* symbolize, enter push_to_aggregator_with_retry
PusherWake ==
  /\ ppc = "sleep"
  /\ LET t == TakePending(mode, samples, push_cursor)
     IN /\ push_cursor' = t.cursor
        /\ lastTake' = [old |-> push_cursor, new |-> t.cursor, len |-> Len(samples),
                        returned |-> t.events, all |-> lastTake.all \o t.events]
        /\ job' = NewJob("stream", t.events)
  /\ ppc' = "push"
  /\ UNCHANGED <<mode, serverMode, initial_interval, readersAlive, phase, push_interval, lastAdjust, client,
                 seqVars, delivered, finalEvents, samples, bufVars, storeVars, authVars, aggVars, rpcVars, alertVars, libVars>>

\* push_to_aggregator up to the work loop: empty batch, connect if needed
JobCall(connOk) ==
  /\ job.pc = "call"
  /\ IF job.events = <<>>
       THEN /\ connOk
            /\ Settle(Returned(job, [returned |-> TRUE, ok |-> TRUE, bp |-> "None"]))
            /\ UNCHANGED client
       ELSE IF client = "none" /\ ~connOk
         THEN /\ serverMode = "any"
              /\ Settle(FailAttempt(job))
              /\ UNCHANGED client
         ELSE /\ connOk
              /\ client' = "conn"
              /\ Settle([job EXCEPT !.pc = "loop", !.queue = <<job.events>>,
                                    !.last_backpressure = "None"])
  /\ UNCHANGED <<mode, serverMode, initial_interval, readersAlive, seqVars, delivered, finalEvents,
                 collVars, bufVars, storeVars, authVars, aggVars, rpcVars, alertVars, libVars>>

\* one turn of push_to_aggregator's work loop: pop a chunk, push_with_client,
\* and act on the answer
JobPush(outcome) ==
  /\ job.pc = "loop"
  /\ job.queue # <<>>
  /\ PUSH_SEQUENCE <= MaxRpcs
  /\ outcome \in ServerAnswers(serverMode, Head(job.queue))
  /\ SendPush("own")
  /\ UNCHANGED otherSent
  /\ LET chunk == Head(job.queue)
         rest == Tail(job.queue)
     IN CASE outcome \in {"ok", "ok_backpressure"} ->
               LET bp == IF outcome = "ok_backpressure" THEN "true" ELSE "false"
                   j1 == [job EXCEPT !.queue = rest, !.last_backpressure = bp,
                                      !.accepted = Append(@, chunk)]
               IN /\ delivered' = delivered \cup Range(chunk)
                  /\ UNCHANGED client
                  /\ Settle(IF rest = <<>> THEN Returned(j1, [returned |-> TRUE, ok |-> TRUE, bp |-> bp]) ELSE j1)
          [] ShouldSplit(outcome, chunk) ->
               /\ Settle([job EXCEPT !.queue = SplitChunk(chunk) \o rest])
               /\ UNCHANGED <<client, delivered>>
          [] OTHER ->
               /\ client' = DropOnError(outcome, client)
               /\ Settle(FailAttempt(job))
               /\ UNCHANGED delivered
  /\ UNCHANGED <<mode, serverMode, initial_interval, readersAlive, finalEvents, collVars, bufVars, storeVars, authVars, aggVars, rpcVars, alertVars, libVars>>

\* the backoff sleep is over: next attempt
JobWake ==
  /\ job.pc = "backoff"
  /\ job' = [job EXCEPT !.pc = "call", !.attempt = @ + 1]
  /\ UNCHANGED <<mode, serverMode, initial_interval, readersAlive, phase, ppc, push_interval, lastAdjust, client,
                 seqVars, delivered, finalEvents, collVars, bufVars, storeVars, authVars, aggVars, rpcVars, alertVars, libVars>>

\* the profiling duration has elapsed: abort the streaming pusher and await it.
\* The abort lands at the task's current suspension point (interval sleep,
\* connect, RPC, backoff sleep); whatever it was pushing is dropped with it.
ShutdownAbortPusher ==
  /\ phase = "running"
  /\ phase' = "pusher_aborted"
  /\ ppc' = "aborted"
  /\ job' = IF job.owner = "stream" THEN [job EXCEPT !.owner = "none", !.pc = "idle", !.queue = <<>>]
            ELSE job
  /\ UNCHANGED <<mode, serverMode, initial_interval, readersAlive, push_interval, lastAdjust, client, seqVars,
                 delivered, finalEvents, collVars, bufVars, storeVars, authVars, aggVars, rpcVars, alertVars, libVars>>

\* abort the reader tasks, await them, stop the probes
ShutdownAbortReaders ==
  /\ phase = "pusher_aborted"
  /\ phase' = "readers_aborted"
  /\ readersAlive' = FALSE
  /\ UNCHANGED <<mode, serverMode, initial_interval, ppc, push_interval, lastAdjust, client, seqVars, job,
                 delivered, finalEvents, collVars, bufVars, storeVars, authVars, aggVars, rpcVars, alertVars, libVars>>

\* unwrap the collector; final take_pending_events, symbolize, push with a
\* fresh client
FinalDrain ==
  /\ phase = "readers_aborted"
  /\ phase' = "final"
  /\ client' = "none"
  /\ LET t == TakePending(mode, samples, push_cursor)
     IN /\ push_cursor' = t.cursor
        /\ lastTake' = [old |-> push_cursor, new |-> t.cursor, len |-> Len(samples),
                        returned |-> t.events, all |-> lastTake.all \o t.events]
        /\ finalEvents' = t.events
        /\ job' = NewJob("final", t.events)
  /\ UNCHANGED <<mode, serverMode, initial_interval, readersAlive, ppc, push_interval, lastAdjust, seqVars,
                 delivered, samples, bufVars, storeVars, authVars, aggVars, rpcVars, alertVars, libVars>>

\* a profiler running concurrently in the same process sends a Push
OtherPusherRpc ==
  /\ otherSent < MaxOtherRpcs
  /\ PUSH_SEQUENCE <= MaxRpcs
  /\ SendPush("other")
  /\ otherSent' = otherSent + 1
  /\ UNCHANGED <<rpcLog, mode, serverMode, initial_interval, readersAlive, phase, ppc, push_interval,
                 lastAdjust, client, job, delivered, finalEvents, collVars, bufVars, storeVars,
                 authVars, aggVars, rpcVars, alertVars, libVars>>

\* the loop turn, its answer not observed
JobRpc(outcome) == JobPush(outcome) /\ UNCHANGED rpcLog

\* the loop turn, its answer observed
JobRpcLogged(outcome) == JobPush(outcome) /\ rpcLog' = <<outcome>>

NextAgent ==
  \/ ReaderAdd
  \/ PusherWake
  \/ \E connOk \in BOOLEAN : JobCall(connOk)
  \/ \E outcome \in RpcOutcomes : JobRpc(outcome)
  \/ JobWake
  \/ ShutdownAbortPusher
  \/ ShutdownAbortReaders
  \/ FinalDrain

NextAgentLogged ==
  \/ ReaderAdd
  \/ PusherWake
  \/ \E connOk \in BOOLEAN : JobCall(connOk)
  \/ \E outcome \in RpcOutcomes : JobRpcLogged(outcome)
  \/ JobWake
  \/ ShutdownAbortPusher
  \/ ShutdownAbortReaders
  \/ FinalDrain

\* ------------------------------------------------------------------------
\* ClickHouse store (aggregator/src/storage/clickhouse.rs)
\* ------------------------------------------------------------------------
MaxRows == 3       \* rows written in one run

FLUSH_THRESHOLD == 100

\* rows written before the part of a long run that is looked at, and the
\* rows written in that part
Backlog == FLUSH_THRESHOLD
MaxBacklogWrites == 1

\* `if len >= FLUSH_THRESHOLD { self.flush_notify.notify_one(); }`
ThresholdNever(len) == FALSE

ThresholdReached(len) == len >= FLUSH_THRESHOLD

\* rows in the table
Inserted == UNION {Range(insertLog[i]) : i \in 1..Len(insertLog)}

RequeueAtHead(p, rows) == rows \o p

\* do_flush after a failed insert: p.extend(rows)
Requeue(p, rows) == p \o rows

\* ClickHouseStore::flush after a failed insert: Err(e), the rows are gone
FlushErr(p, rows) == p

NoTakes == [bg |-> {}, query |-> {}, shutdown |-> {}]

InitStore ==
  /\ pending = <<>>
  /\ nextRow = 0
  /\ insertLog = <<>>
  /\ cancelled = FALSE
  /\ notified = FALSE
  /\ bgpc = "wait"
  /\ bgRows = <<>>
  /\ bgLabel = "timer"
  /\ qpc = "idle"
  /\ qRows = <<>>
  /\ qStart = 0
  /\ lastQuery = [done |-> FALSE, start |-> 0, seen |-> {}]
  /\ sdpc = "running"
  /\ sdRows = <<>>
  /\ takeLog = NoTakes

ParkedStore == InitStore

\* a store that has been written to for a while: the background task is in
\* the insert of the first row, the other rows of the backlog are pending
BacklogRows(from) == [i \in 1..(Backlog + 1 - from) |-> from + i - 1]

InitStoreBacklog ==
  /\ nextRow = Backlog
  /\ insertLog = <<>>
  /\ cancelled = FALSE
  /\ notified = FALSE
  /\ bgpc = "insert"
  /\ bgLabel = "timer"
  /\ bgRows = <<1>>
  /\ pending = BacklogRows(2)
  /\ takeLog = [NoTakes EXCEPT !.bg = {1}]
  /\ qpc = "idle"
  /\ qRows = <<>>
  /\ qStart = 0
  /\ lastQuery = [done |-> FALSE, start |-> 0, seen |-> {}]
  /\ sdpc = "running"
  /\ sdRows = <<>>

\* write_batch -> enqueue_batch: push the row, notify at the threshold
WriteBatch ==
  /\ sdpc = "running"
  /\ nextRow < (IF nextRow >= Backlog THEN Backlog + MaxBacklogWrites ELSE MaxRows)
  /\ nextRow' = nextRow + 1
  /\ pending' = Append(pending, nextRow + 1)
  /\ notified' = (notified \/ ThresholdReached(Len(pending) + 1))
  /\ UNCHANGED <<insertLog, cancelled, bgpc, bgRows, bgLabel, qpc, qRows, qStart, lastQuery,
                 sdpc, sdRows, takeLog, bufVars, agentVars, authVars, aggVars, rpcVars, alertVars, libVars>>

\* the background task's select! fires (timer tick, notification, or
\* cancellation) and do_flush swaps the pending vector out
BgWake(reason) ==
  /\ bgpc = "wait"
  /\ reason = "threshold" => notified
  /\ reason = "shutdown" => cancelled
  /\ notified' = IF reason = "threshold" THEN FALSE ELSE notified
  /\ bgLabel' = reason
  /\ IF pending = <<>>
       THEN /\ bgpc' = IF reason = "shutdown" THEN "exited" ELSE "wait"
            /\ UNCHANGED <<pending, bgRows, takeLog>>
       ELSE /\ bgpc' = "insert"
            /\ bgRows' = pending
            /\ pending' = <<>>
            /\ takeLog' = [takeLog EXCEPT !.bg = @ \cup Range(pending)]
  /\ UNCHANGED <<nextRow, insertLog, cancelled, qpc, qRows, qStart, lastQuery, sdpc, sdRows,
                 bufVars, agentVars, authVars, aggVars, rpcVars, alertVars, libVars>>

\* its bulk insert comes back: on error the rows go back to the tail of pending
BgInsertDone(ok) ==
  /\ bgpc = "insert"
  /\ IF ok
       THEN insertLog' = Append(insertLog, bgRows) /\ UNCHANGED pending
       ELSE pending' = Requeue(pending, bgRows) /\ UNCHANGED insertLog
  /\ bgRows' = <<>>
  /\ bgpc' = IF bgLabel = "shutdown" THEN "exited" ELSE "wait"
  /\ UNCHANGED <<nextRow, cancelled, notified, bgLabel, qpc, qRows, qStart, lastQuery, sdpc,
                 sdRows, takeLog, bufVars, agentVars, authVars, aggVars, rpcVars, alertVars, libVars>>

\* fetch_batches / fetch_payloads begin: `let _ = self.flush().await`, up to
\* the swap-out of pending (nothing to insert when pending is empty)
QueryBegin ==
  /\ sdpc = "running"
  /\ qpc = "idle"
  /\ qStart' = nextRow
  /\ IF pending = <<>>
       THEN qpc' = "select" /\ UNCHANGED <<pending, qRows, takeLog>>
       ELSE /\ qpc' = "insert"
            /\ qRows' = pending
            /\ pending' = <<>>
            /\ takeLog' = [takeLog EXCEPT !.query = @ \cup Range(pending)]
  /\ UNCHANGED <<nextRow, insertLog, cancelled, notified, bgpc, bgRows, bgLabel, lastQuery,
                 sdpc, sdRows, bufVars, agentVars, authVars, aggVars, rpcVars, alertVars, libVars>>

\* the query's flush comes back; its result is discarded
QueryInsertDone(ok) ==
  /\ qpc = "insert"
  /\ IF ok
       THEN insertLog' = Append(insertLog, qRows) /\ UNCHANGED pending
       ELSE pending' = FlushErr(pending, qRows) /\ UNCHANGED insertLog
  /\ qRows' = <<>>
  /\ qpc' = "select"
  /\ UNCHANGED <<nextRow, cancelled, notified, bgpc, bgRows, bgLabel, qStart, lastQuery,
                 sdpc, sdRows, takeLog, bufVars, agentVars, authVars, aggVars, rpcVars, alertVars, libVars>>

\* the query's SELECT runs against the table
QuerySelect ==
  /\ qpc = "select"
  /\ lastQuery' = [done |-> TRUE, start |-> qStart, seen |-> Inserted]
  /\ qpc' = "idle"
  /\ UNCHANGED <<pending, nextRow, insertLog, cancelled, notified, bgpc, bgRows, bgLabel,
                 qRows, qStart, sdpc, sdRows, takeLog, bufVars, agentVars, authVars, aggVars, rpcVars, alertVars, libVars>>

\* ClickHouseStore::shutdown: cancel the token, take the task handle
ShutdownCancel ==
  /\ sdpc = "running"
  /\ qpc = "idle"
  /\ cancelled' = TRUE
  /\ sdpc' = "await"
  /\ UNCHANGED <<pending, nextRow, insertLog, notified, bgpc, bgRows, bgLabel, qpc, qRows,
                 qStart, lastQuery, sdRows, takeLog, bufVars, agentVars, authVars, aggVars, rpcVars, alertVars, libVars>>

\* `if let Some(h) = handle { let _ = h.await; }`: shutdown goes on once the
\* background task has finished
HandleDetached(pc) == TRUE

HandleAwaited(pc) == pc = "exited"

\* the awaited task has exited; the final flush() swaps pending out
ShutdownFlush ==
  /\ sdpc = "await"
  /\ HandleAwaited(bgpc)
  /\ IF pending = <<>>
       THEN sdpc' = "done" /\ UNCHANGED <<pending, sdRows, takeLog>>
       ELSE /\ sdpc' = "insert"
            /\ sdRows' = pending
            /\ pending' = <<>>
            /\ takeLog' = [takeLog EXCEPT !.shutdown = @ \cup Range(pending)]
  /\ UNCHANGED <<nextRow, insertLog, cancelled, notified, bgpc, bgRows, bgLabel, qpc, qRows,
                 qStart, lastQuery, bufVars, agentVars, authVars, aggVars, rpcVars, alertVars, libVars>>

\* the final flush comes back and shutdown returns its result: Ok ("done")
\* or Err ("failed")
ShutdownInsertDone(ok) ==
  /\ sdpc = "insert"
  /\ IF ok
       THEN insertLog' = Append(insertLog, sdRows) /\ UNCHANGED pending
       ELSE pending' = FlushErr(pending, sdRows) /\ UNCHANGED insertLog
  /\ sdpc' = IF ok THEN "done" ELSE "failed"
  /\ UNCHANGED <<nextRow, cancelled, notified, bgpc, bgRows, bgLabel, qpc, qRows, qStart,
                 lastQuery, sdRows, takeLog, bufVars, agentVars, authVars, aggVars, rpcVars, alertVars, libVars>>

NextStore ==
  \/ WriteBatch
  \/ \E reason \in {"timer", "threshold", "shutdown"} : BgWake(reason)
  \/ \E ok \in BOOLEAN : BgInsertDone(ok)
  \/ QueryBegin
  \/ \E ok \in BOOLEAN : QueryInsertDone(ok)
  \/ QuerySelect
  \/ ShutdownCancel
  \/ ShutdownFlush
  \/ \E ok \in BOOLEAN : ShutdownInsertDone(ok)

\* ------------------------------------------------------------------------
\* Bearer-token check (aggregator/src/server/grpc.rs, server/auth.rs)
\* ------------------------------------------------------------------------
MaxTokenLen == 2   \* longest token and longest header tail tried

\* Strings are sequences of characters; "x80" stands for a byte that is not
\* visible ASCII.
NonAscii == "x80"

Bearer == <<"B", "e", "a", "r", "e", "r", " ">>

TokenChars == {"s", "x"}

HeaderChars == {"s", "x", " ", NonAscii}

SeqsUpTo(S, n) == UNION {[1..k -> S] : k \in 0..n}

NoneStr == [some |-> FALSE, value |-> <<>>]

SomeStr(v) == [some |-> TRUE, value |-> v]

Tokens == {NoneStr} \cup {SomeStr(t) : t \in SeqsUpTo(TokenChars, MaxTokenLen)}

HeaderPrefixes ==
  {<<>>, Bearer, <<"b", "e", "a", "r", "e", "r", " ">>, <<"B", "e", "a", "r", "e", "r">>,
   <<" ">> \o Bearer}

Headers ==
  {NoneStr} \cup {SomeStr(p \o t) : p \in HeaderPrefixes, t \in SeqsUpTo(HeaderChars, MaxTokenLen)}

\* MetadataValue::to_str: fails unless every byte is visible ASCII
ToStrOk(bytes) == \A i \in 1..Len(bytes) : bytes[i] # NonAscii

\* str::strip_prefix
StripPrefixOptional(str, prefix) ==
  IF Len(str) >= Len(prefix) /\ SubSeq(str, 1, Len(prefix)) = prefix
    THEN SomeStr(SubSeq(str, Len(prefix) + 1, Len(str)))
    ELSE SomeStr(str)

StripPrefix(str, prefix) ==
  IF Len(str) >= Len(prefix) /\ SubSeq(str, 1, Len(prefix)) = prefix
    THEN SomeStr(SubSeq(str, Len(prefix) + 1, Len(str)))
    ELSE NoneStr

\* the match on the authorization metadata, shared by both checks
CheckHeader(expected, header) ==
  IF ~header.some
    THEN [result |-> "Unauthenticated", audit |-> "failure: missing authorization header"]
  ELSE IF ~ToStrOk(header.value)
    THEN [result |-> "Unauthenticated", audit |-> "failure: invalid authorization header encoding"]
  ELSE LET token == StripPrefix(header.value, Bearer)
       IN IF ~token.some
            THEN [result |-> "Unauthenticated", audit |-> "failure: missing Bearer prefix"]
          ELSE IF token.value = expected
            THEN [result |-> "Ok", audit |-> "success"]
          ELSE [result |-> "Unauthenticated", audit |-> "failure: invalid token"]

\* AggregatorService::check_auth
CheckAuth(expected, header) ==
  IF ~expected.some THEN [result |-> "Ok", audit |-> "none"]
  ELSE CheckHeader(expected.value, header)

\* make_auth_interceptor's closure
AuthInterceptor(expected, header) ==
  IF ~expected.some THEN [result |-> "Ok", audit |-> "success"]
  ELSE CheckHeader(expected.value, header)

InitAuth ==
  /\ auth_token \in Tokens
  /\ authHeader = NoneStr
  /\ authImpl = "none"
  /\ authResult = "Ok"
  /\ authAudit = "none"

ParkedAuth ==
  /\ auth_token = NoneStr
  /\ authHeader = NoneStr
  /\ authImpl = "none"
  /\ authResult = "Ok"
  /\ authAudit = "none"

\* a gRPC handler checks a request
CheckAuthRequest(header) ==
  /\ authHeader' = header
  /\ authImpl' = "check_auth"
  /\ LET r == CheckAuth(auth_token, header)
     IN authResult' = r.result /\ authAudit' = r.audit
  /\ UNCHANGED <<auth_token, bufVars, agentVars, storeVars, aggVars, rpcVars, alertVars, libVars>>

\* the tonic interceptor checks a request
InterceptRequest(header) ==
  /\ authHeader' = header
  /\ authImpl' = "interceptor"
  /\ LET r == AuthInterceptor(auth_token, header)
     IN authResult' = r.result /\ authAudit' = r.audit
  /\ UNCHANGED <<auth_token, bufVars, agentVars, storeVars, aggVars, rpcVars, alertVars, libVars>>

NextAuth ==
  \/ \E header \in Headers : CheckAuthRequest(header)
  \/ \E header \in Headers : InterceptRequest(header)

\* ------------------------------------------------------------------------
\* Aggregation engine (aggregator/src/aggregate.rs, shared/src/types/profile.rs)
\* ------------------------------------------------------------------------
MaxPayloads == 3   \* longest payload list aggregated

\* An Option is a sequence of length at most one; a HashMap is a function on
\* the set of its keys.
EmptyMap == <<>>

Put(m, k, v) == [x \in (DOMAIN m) \cup {k} |-> IF x = k THEN v ELSE m[x]]

\* ProfileEvent variants; a field a variant does not have is left at zero.
Event(kind, ts, us, ks, addr, trace, wait, id, dur, ret) ==
  [kind |-> kind, timestamp |-> ts, user_stack |-> us, kernel_stack |-> ks,
   lock_addr |-> addr, stack_trace |-> trace, wait_time_ns |-> wait,
   syscall_id |-> id, duration_ns |-> dur, return_value |-> ret]

CpuSampleEv(ts, us, ks) == Event("CpuSample", ts, us, ks, 0, <<>>, 0, 0, 0, 0)

LockEv(ts, addr, trace, wait) == Event("Lock", ts, <<>>, <<>>, addr, trace, wait, 0, 0, 0)

SyscallEv(ts, id, dur, ret) == Event("Syscall", ts, <<>>, <<>>, 0, <<>>, 0, id, dur, ret)

GpuKernelEv == Event("GpuKernel", 0, <<>>, <<>>, 0, <<>>, 0, 0, 0, 0)

\* A stored payload: whether its base64 text decodes, whether the bytes
\* decode as a wire Message, and the events of that message.
Payload(b64, wire, events) == [b64 |-> b64, wire |-> wire, events |-> events]

AggPayloads ==
  { Payload(FALSE, FALSE, <<>>),
    Payload(TRUE, FALSE, <<>>),
    Payload(TRUE, TRUE, <<>>),
    Payload(TRUE, TRUE, <<CpuSampleEv(10, <<1>>, <<2>>), SyscallEv(8, 0, 5, -1)>>),
    Payload(TRUE, TRUE, <<LockEv(7, 9, <<3>>, 4), CpuSampleEv(5, <<>>, <<>>), GpuKernelEv>>),
    Payload(TRUE, TRUE, <<SyscallEv(12, 0, 0, 0), LockEv(3, 9, <<3>>, 6), CpuSampleEv(20, <<1>>, <<2>>)>>) }

\* Stack::from_ips: one unresolved frame per address
StackFromIps(ips) == ips

\* Profile::new
ProfileNew(start, end, period) ==
  [start_time |-> start, end_time |-> end, samples |-> EmptyMap,
   total_samples |-> 0, sample_period_ns |-> period]

\* Profile::add_sample
ProfileAddSample(p, stack) ==
  [p EXCEPT !.samples = Put(p.samples, stack,
                            (IF stack \in DOMAIN p.samples THEN p.samples[stack] ELSE 0) + 1),
            !.total_samples = p.total_samples + 1]

\* LockProfile::new
LockProfileNew(start) ==
  [start_time |-> start, end_time |-> 0, contentions |-> EmptyMap, total_events |-> 0]

\* LockProfile::add_contention; a fresh entry starts from
\* LockContentionStats::default, whose min_wait_ns = u64::MAX gives way to
\* the first wait.
AddContention(p, lock_addr, stack, wait_ns) ==
  LET key == <<lock_addr, stack>>
      fresh == key \notin DOMAIN p.contentions
      old == IF fresh THEN [count |-> 0, total_wait_ns |-> 0, max_wait_ns |-> 0,
                            min_wait_ns |-> wait_ns]
             ELSE p.contentions[key]
      stats == [count |-> old.count + 1,
                total_wait_ns |-> old.total_wait_ns + wait_ns,
                max_wait_ns |-> Max(old.max_wait_ns, wait_ns),
                min_wait_ns |-> Min(old.min_wait_ns, wait_ns)]
  IN [p EXCEPT !.contentions = Put(p.contentions, key, stats),
               !.total_events = p.total_events + 1]

\* SyscallProfile::new
SyscallProfileNew(start) ==
  [start_time |-> start, end_time |-> 0, syscalls |-> EmptyMap, total_events |-> 0]

HistogramBuckets == 30

RECURSIVE Log2Floor(_)
\* 63 - leading_zeros(d) for d > 0
Log2Floor(d) == IF d <= 1 THEN 0 ELSE 1 + Log2Floor(d \div 2)

LatencyBucketUnclamped(duration_ns) ==
  IF duration_ns = 0 THEN 0 ELSE Log2Floor(duration_ns)

LatencyBucket(duration_ns) ==
  IF duration_ns = 0 THEN 0 ELSE Min(Log2Floor(duration_ns), HistogramBuckets - 1)

\* SyscallProfile::add_syscall; a fresh entry starts from SyscallStats::new,
\* whose min_duration_ns = u64::MAX gives way to the first duration.
AddSyscall(p, id, duration_ns, return_value) ==
  LET fresh == id \notin DOMAIN p.syscalls
      old == IF fresh
               THEN [syscall_id |-> id, count |-> 0, total_duration_ns |-> 0,
                     max_duration_ns |-> 0, min_duration_ns |-> duration_ns,
                     error_count |-> 0,
                     latency_histogram |-> [b \in 0..(HistogramBuckets - 1) |-> 0]]
               ELSE p.syscalls[id]
      bucket == LatencyBucket(duration_ns)
      stats == [old EXCEPT !.count = @ + 1,
                           !.total_duration_ns = @ + duration_ns,
                           !.max_duration_ns = Max(@, duration_ns),
                           !.min_duration_ns = Min(@, duration_ns),
                           !.error_count = IF return_value < 0 THEN @ + 1 ELSE @,
                           !.latency_histogram[bucket] = @ + 1]
  IN [p EXCEPT !.syscalls = Put(p.syscalls, id, stats),
               !.total_events = p.total_events + 1]

\* the start_time / end_time widening every arm does
WidenOverwrite(p, ts) == [p EXCEPT !.start_time = IF ts < @ THEN ts ELSE @, !.end_time = ts]

Widen(p, ts) ==
  [p EXCEPT !.start_time = IF ts < @ THEN ts ELSE @,
            !.end_time = IF ts > @ THEN ts ELSE @]

EmptyResult == [cpu |-> <<>>, lock |-> <<>>, syscall |-> <<>>, total_events |-> 0]

\* one iteration of the inner loop: count the event and route it by variant
AggregateEvent(acc, ev) ==
  LET counted == [acc EXCEPT !.total_events = @ + 1]
  IN CASE ev.kind = "CpuSample" ->
            LET profile == Widen(IF acc.cpu = <<>>
                                   THEN ProfileNew(ev.timestamp, ev.timestamp, 0)
                                   ELSE acc.cpu[1], ev.timestamp)
                ips == ev.user_stack \o ev.kernel_stack
            IN [counted EXCEPT !.cpu = IF ips # <<>>
                                         THEN <<ProfileAddSample(profile, StackFromIps(ips))>>
                                         ELSE <<profile>>]
       [] ev.kind = "Lock" ->
            LET profile == Widen(IF acc.lock = <<>> THEN LockProfileNew(ev.timestamp)
                                 ELSE acc.lock[1], ev.timestamp)
            IN [counted EXCEPT !.lock =
                  IF ev.stack_trace # <<>>
                    THEN <<AddContention(profile, ev.lock_addr, StackFromIps(ev.stack_trace),
                                         ev.wait_time_ns)>>
                    ELSE <<profile>>]
       [] ev.kind = "Syscall" ->
            LET profile == Widen(IF acc.syscall = <<>> THEN SyscallProfileNew(ev.timestamp)
                                 ELSE acc.syscall[1], ev.timestamp)
            IN [counted EXCEPT !.syscall =
                  <<AddSyscall(profile, ev.syscall_id, ev.duration_ns, ev.return_value)>>]
       [] OTHER -> counted

RECURSIVE AggregateEvents(_, _)
AggregateEvents(acc, events) ==
  IF events = <<>> THEN acc
  ELSE AggregateEvents(AggregateEvent(acc, Head(events)), Tail(events))

\* whether a payload gets through BASE64.decode and Message::from_bytes
Decodes(payload) == payload.b64 /\ payload.wire

RECURSIVE AggregateBatches(_, _)
\* aggregate_batches as a function: "?" returns Err at the first payload
\* that does not decode
AggregateBatches(acc, payloads) ==
  IF payloads = <<>> THEN [ok |-> TRUE, value |-> acc]
  ELSE IF ~Decodes(Head(payloads)) THEN [ok |-> FALSE, value |-> EmptyResult]
  ELSE AggregateBatches(AggregateEvents(acc, Head(payloads).events), Tail(payloads))

InitAggregate ==
  /\ aggInput \in SeqsUpTo(AggPayloads, MaxPayloads)
  /\ aggIdx = 1
  /\ aggAcc = EmptyResult
  /\ aggPc = "run"

ParkedAggregate ==
  /\ aggInput = <<>>
  /\ aggIdx = 1
  /\ aggAcc = EmptyResult
  /\ aggPc = "run"

\* one iteration of the outer loop of aggregate_batches
AggregatePayload ==
  /\ aggPc = "run"
  /\ aggIdx <= Len(aggInput)
  /\ IF Decodes(aggInput[aggIdx])
       THEN /\ aggAcc' = AggregateEvents(aggAcc, aggInput[aggIdx].events)
            /\ aggIdx' = aggIdx + 1
            /\ aggPc' = "run"
       ELSE /\ aggPc' = "err"
            /\ UNCHANGED <<aggAcc, aggIdx>>
  /\ UNCHANGED <<aggInput, bufVars, agentVars, storeVars, authVars, rpcVars, alertVars, libVars>>

\* the loop is over: Ok(AggregateResult { .. })
AggregateReturn ==
  /\ aggPc = "run"
  /\ aggIdx > Len(aggInput)
  /\ aggPc' = "ok"
  /\ UNCHANGED <<aggInput, aggIdx, aggAcc, bufVars, agentVars, storeVars, authVars, rpcVars, alertVars, libVars>>

NextAggregate ==
  \/ AggregatePayload
  \/ AggregateReturn

\* ------------------------------------------------------------------------
\* gRPC handlers: what comes back when something below fails
\* (aggregator/src/server/grpc.rs).  The calls have passed check_auth.
\* ------------------------------------------------------------------------
MaxFetched == 1    \* longest payload list a store fetch returns

\* what a call meets: nothing, a poisoned buffer lock, no store configured,
\* or a store whose first / second fetch fails
RpcFaults == {"none", "buffer_lock", "store_none", "store_down", "store_down_2"}

EventTypes == {"", "cpu", "lock", "syscall", "gpu"}

FetchedLists == SeqsUpTo(AggPayloads, MaxFetched)

Call(method, fault, fetched, event_type) ==
  [method |-> method, fault |-> fault, fetched |-> fetched, event_type |-> event_type]

\* Ok(Response::new(..)) with its error string and what else it carries
Response(error, body) == [kind |-> "response", error |-> error, body |-> body]

\* Err(Status::internal(..))
StatusInternal(message) == [kind |-> "status", error |-> message, body |-> <<>>]

\* aggregate::filter_by_type
FilterByType(result, event_type) ==
  CASE event_type = "cpu" -> [result EXCEPT !.lock = <<>>, !.syscall = <<>>]
    [] event_type = "lock" -> [result EXCEPT !.cpu = <<>>, !.syscall = <<>>]
    [] event_type = "syscall" -> [result EXCEPT !.cpu = <<>>, !.lock = <<>>]
    [] OTHER -> result

NoBufQuery == [done |-> FALSE, agent_id |-> <<>>, limit |-> 0, out |-> <<>>]

InitRpc ==
  /\ rpcCall = Call("none", "none", <<>>, "")
  /\ rpcReply = [kind |-> "none", error |-> "", body |-> <<>>]
  /\ lastBufQuery = NoBufQuery

ParkedRpc == InitRpc

\* AggregatorService::push: a failed buffer.push is answered with ok = false
HandlePush(fault) ==
  /\ rpcCall' = Call("Push", fault, <<>>, "")
  /\ rpcReply' = IF fault = "buffer_lock" THEN Response("poisoned lock", <<"ok", FALSE>>)
                 ELSE Response("", <<"ok", TRUE>>)
  /\ UNCHANGED <<lastBufQuery, bufVars, agentVars, storeVars, authVars, aggVars, alertVars, libVars>>

\* AggregatorService::query
HandleQuery(fault) ==
  /\ rpcCall' = Call("Query", fault, <<>>, "")
  /\ rpcReply' = IF fault = "buffer_lock" THEN Response("poisoned lock", <<>>)
                 ELSE Response("", <<"batches">>)
  /\ UNCHANGED <<lastBufQuery, bufVars, agentVars, storeVars, authVars, aggVars, alertVars, libVars>>

\* AggregatorService::query_storage
HandleQueryStorage(fault) ==
  /\ rpcCall' = Call("QueryStorage", fault, <<>>, "")
  /\ rpcReply' = CASE fault = "store_none" -> Response("storage not configured", <<>>)
                   [] fault = "store_down" -> StatusInternal("query_batches failed")
                   [] OTHER -> Response("", <<"batches">>)
  /\ UNCHANGED <<lastBufQuery, bufVars, agentVars, storeVars, authVars, aggVars, alertVars, libVars>>

\* AggregatorService::aggregate
HandleAggregate(fault, payloads, event_type) ==
  /\ rpcCall' = Call("Aggregate", fault, <<payloads>>, event_type)
  /\ rpcReply' =
       CASE fault = "store_none" -> Response("storage not configured", <<>>)
         [] fault = "store_down" -> StatusInternal("fetch_payload_strings failed")
         [] OTHER ->
              LET out == AggregateBatches(EmptyResult, payloads)
              IN IF out.ok THEN Response("", <<FilterByType(out.value, event_type)>>)
                 ELSE Response("aggregation failed", <<>>)
  /\ UNCHANGED <<lastBufQuery, bufVars, agentVars, storeVars, authVars, aggVars, alertVars, libVars>>

\* AggregatorService::diff
HandleDiff(fault, baseline, comparison, event_type) ==
  /\ rpcCall' = Call("Diff", fault, <<baseline, comparison>>, event_type)
  /\ rpcReply' =
       IF fault = "store_none" THEN Response("storage not configured", <<>>)
       ELSE IF fault = "store_down" THEN StatusInternal("fetch_payload_strings failed")
       ELSE IF ~AggregateBatches(EmptyResult, baseline).ok
         THEN StatusInternal("baseline aggregation")
       ELSE IF fault = "store_down_2" THEN StatusInternal("fetch_payload_strings failed")
       ELSE IF ~AggregateBatches(EmptyResult, comparison).ok
         THEN StatusInternal("comparison aggregation")
       ELSE IF event_type \notin {"cpu", "lock", "syscall"}
         THEN Response("event_type must be 'cpu', 'lock', or 'syscall'", <<>>)
       ELSE Response("", <<"diff", event_type>>)
  /\ UNCHANGED <<lastBufQuery, bufVars, agentVars, storeVars, authVars, aggVars, alertVars, libVars>>

NextRpc ==
  \/ \E fault \in {"none", "buffer_lock"} : HandlePush(fault)
  \/ \E fault \in {"none", "buffer_lock"} : HandleQuery(fault)
  \/ \E fault \in {"none", "store_none", "store_down"} : HandleQueryStorage(fault)
  \/ \E fault \in {"none", "store_none", "store_down"}, payloads \in FetchedLists,
        event_type \in EventTypes : HandleAggregate(fault, payloads, event_type)
  \/ \E fault \in RpcFaults \ {"buffer_lock"}, baseline \in FetchedLists,
        comparison \in FetchedLists, event_type \in EventTypes :
          HandleDiff(fault, baseline, comparison, event_type)

\* ------------------------------------------------------------------------
\* Query answered from the ring buffer (aggregator/src/buffer.rs, query;
\* aggregator/src/server/grpc.rs, query)
\* ------------------------------------------------------------------------
DEFAULT_BUFFER_SIZE == 10000

\* `limit.min(1000)`
QueryLimitUncapped(limit) == limit

QueryLimit(limit) == Min(limit, 1000)

\* what query returns of a batch
BatchTuple(b) == <<b.agent_id, b.sequence, b.event_count, b.received_at_ns>>

Reverse(s) == [i \in 1..Len(s) |-> s[Len(s) + 1 - i]]

\* `for b in batches.iter().rev()` over the batches lo..hi: from batch hi
\* down, stop at the limit, skip the batches of other agents.  The range is
\* walked upper half first, then lower half, which is the same walk.
RECURSIVE QueryScan(_, _, _, _, _, _)
QueryScan(bs, lo, hi, agent_id_filter, limit, out) ==
  IF lo > hi \/ Len(out) >= limit THEN out
  ELSE IF lo = hi
    THEN IF agent_id_filter # <<>> /\ bs[hi].agent_id # agent_id_filter[1]
           THEN out
           ELSE Append(out, BatchTuple(bs[hi]))
  ELSE LET mid == (lo + hi + 1) \div 2
           newer == QueryScan(bs, mid, hi, agent_id_filter, limit, out)
       IN QueryScan(bs, lo, mid - 1, agent_id_filter, limit, newer)

\* InMemoryBuffer::query
BufferQuery(bs, agent_id_filter, limit) ==
  Reverse(QueryScan(bs, 1, Len(bs), agent_id_filter, QueryLimit(limit), <<>>))

\* AggregatorService::query: an empty agent_id is no filter
AgentFilter(agent_id) == IF agent_id = <<"">> THEN <<>> ELSE agent_id

\* AggregatorService::query: limit 0 asks for the default of 100
RequestLimit(limit) == IF limit = 0 THEN 100 ELSE limit

\* QueryRequest: optional agent_id, limit
QueryRequests ==
  [agent_id : {<<>>, <<"">>, <<"a1">>, <<"a2">>, <<"a3">>}, limit : {0, 1, 2, 1000, 1001}]

\* buffers that pushes have filled: n batches, every k-th from agent a2
\* (none when k = 1), the others from a1
FilledBuffer(n, k) ==
  [i \in 1..n |->
     [agent_id |-> IF k > 1 /\ i % k = 0 THEN "a2" ELSE "a1", sequence |-> i,
      event_count |-> 2, received_at_ns |-> i, payload |-> [decodes |-> TRUE, events |-> 2]]]

FilledBuffers == {FilledBuffer(n, k) : n \in {0, 3, 150, 1003}, k \in {1, 2, 500}}

InitQuery ==
  /\ max_batches = DEFAULT_BUFFER_SIZE
  /\ batches \in FilledBuffers
  /\ buffer_drops = 0
  /\ clock = Len(batches)
  /\ hpc = [h \in Handlers |-> "idle"]
  /\ hLenAppend = [h \in Handlers |-> 0]
  /\ lastResp = NoResp
  /\ batch_store = FALSE
  /\ hBatch = [h \in Handlers |-> NoBatch]
  /\ lastAppend = NoBatch
  /\ rpcCall = Call("none", "none", <<>>, "")
  /\ rpcReply = [kind |-> "none", error |-> "", body |-> <<>>]
  /\ lastBufQuery = NoBufQuery

\* AggregatorService::query answered by InMemoryBuffer::query
QueryBuffer(req) ==
  /\ LET agent_filter == AgentFilter(req.agent_id)
         limit == RequestLimit(req.limit)
     IN lastBufQuery' = [done |-> TRUE, agent_id |-> agent_filter, limit |-> limit,
                         out |-> BufferQuery(batches, agent_filter, limit)]
  /\ UNCHANGED <<rpcCall, rpcReply, bufVars, agentVars, storeVars, authVars, aggVars, alertVars, libVars>>

NextQuery == \E req \in QueryRequests : QueryBuffer(req)

\* ------------------------------------------------------------------------
\* Alert store (aggregator/src/alerts.rs)
\* ------------------------------------------------------------------------
MaxRulesCreated == 2   \* create_rule calls in one run
MaxEvaluations == 2    \* evaluate calls in one run

MAX_HISTORY == 500

\* Metric values and thresholds are f64; the model counts them in units of
\* f64::EPSILON / 2, so that values closer than EPSILON exist.
F64_EPSILON == 2

AlertValues == 0..3

Operators == {"Gt", "Gte", "Lt", "Lte", "Eq"}

Abs(x) == IF x < 0 THEN -x ELSE x

\* Operator::evaluate
OperatorEvaluateStrict(op, value, threshold) ==
  CASE op = "Gt" -> value > threshold
    [] op = "Gte" -> value > threshold
    [] op = "Lt" -> value < threshold
    [] op = "Lte" -> value < threshold
    [] op = "Eq" -> Abs(value - threshold) < F64_EPSILON

OperatorEvaluate(op, value, threshold) ==
  CASE op = "Gt" -> value > threshold
    [] op = "Gte" -> value >= threshold
    [] op = "Lt" -> value < threshold
    [] op = "Lte" -> value <= threshold
    [] op = "Eq" -> Abs(value - threshold) < F64_EPSILON

\* the rules the API is asked to create: metric, operator, threshold
RuleRequests ==
  { [metric |-> "buffer_utilization", operator |-> "Gt", threshold |-> 1],
    [metric |-> "buffer_utilization", operator |-> "Eq", threshold |-> 2],
    [metric |-> "push_errors_total", operator |-> "Lte", threshold |-> 1] }

\* MetricSnapshot; the metrics no modelled rule reads stay at their default 0
Snapshots ==
  { [buffer_utilization |-> 0, push_errors_total |-> 1],
    [buffer_utilization |-> 2, push_errors_total |-> 2],
    [buffer_utilization |-> 3, push_errors_total |-> 1] }

\* MetricSnapshot::get
SnapshotGet(snapshot, metric) ==
  IF metric = "buffer_utilization" THEN snapshot.buffer_utilization
  ELSE snapshot.push_errors_total

\* format!("alert-{}", next_id)
RuleIdFixed(n) == <<"alert-", 1>>

RuleId(n) == <<"alert-", n>>

\* the AlertEvent evaluate builds for a rule that fires
AlertEvent(rule, value, fired_at) ==
  [rule_id |-> rule.id, metric |-> rule.metric, value |-> value,
   threshold |-> rule.threshold, operator |-> rule.operator, fired_at |-> fired_at]

\* rules.iter().filter(enabled).filter_map(..).collect()
RECURSIVE Fired(_, _, _)
Fired(rs, snapshot, fired_at) ==
  IF rs = <<>> THEN <<>>
  ELSE LET rule == Head(rs)
           value == SnapshotGet(snapshot, rule.metric)
       IN (IF rule.enabled /\ OperatorEvaluate(rule.operator, value, rule.threshold)
             THEN <<AlertEvent(rule, value, fired_at)>> ELSE <<>>)
          \o Fired(Tail(rs), snapshot, fired_at)

\* while history.len() > MAX_HISTORY { pop_front }
TrimHistoryOff(h) == h

RECURSIVE TrimHistory(_)
TrimHistory(h) == IF Len(h) > MAX_HISTORY THEN TrimHistory(Tail(h)) ELSE h

NoEval ==
  [done |-> FALSE, snapshot |-> [buffer_utilization |-> 0, push_errors_total |-> 0],
   fired |-> <<>>]

\* AlertStore::new
FreshAlerts ==
  /\ rules = <<>>
  /\ history = <<>>
  /\ next_id = 1
  /\ now = 0
  /\ evaluations = 0
  /\ issuedIds = <<>>
  /\ firedLog = <<>>
  /\ lastEval = NoEval

ParkedAlerts == FreshAlerts

\* a store that has run for a while: one rule, created first and firing at
\* every evaluation, has filled the history to just below its capacity
AgedAlerts ==
  LET rule == [id |-> RuleId(1), metric |-> "push_errors_total", operator |-> "Gte",
               threshold |-> 0, enabled |-> TRUE]
      past == [t \in 1..(MAX_HISTORY - 1) |-> AlertEvent(rule, 1, t)]
  IN /\ rules = <<rule>>
     /\ history = past
     /\ next_id = 2
     /\ now = MAX_HISTORY - 1
     /\ evaluations = 0
     /\ issuedIds = <<RuleId(1)>>
     /\ firedLog = past
     /\ lastEval = NoEval

\* the rules and snapshots played against the long-running store
AgedRuleRequests ==
  { [metric |-> "push_errors_total", operator |-> "Gte", threshold |-> 0],
    [metric |-> "buffer_utilization", operator |-> "Lt", threshold |-> 2] }

AgedSnapshots ==
  {snapshot \in Snapshots : snapshot.buffer_utilization # 2}

\* AlertStore::create_rule
CreateRule(req) ==
  /\ next_id <= MaxRulesCreated
  /\ rules' = Append(rules, [id |-> RuleId(next_id), metric |-> req.metric,
                             operator |-> req.operator, threshold |-> req.threshold,
                             enabled |-> TRUE])
  /\ next_id' = next_id + 1
  /\ issuedIds' = Append(issuedIds, RuleId(next_id))
  /\ lastEval' = NoEval
  /\ UNCHANGED <<history, now, evaluations, firedLog, bufVars, agentVars, storeVars,
                 authVars, aggVars, rpcVars, libVars>>

\* AlertStore::delete_rule
DeleteRule(id) ==
  /\ rules' = SelectSeq(rules, LAMBDA r : r.id # id)
  /\ lastEval' = NoEval
  /\ UNCHANGED <<history, next_id, now, evaluations, issuedIds, firedLog, bufVars,
                 agentVars, storeVars, authVars, aggVars, rpcVars, libVars>>

\* AlertStore::toggle_rule: the first rule with that id
ToggleRule(id) ==
  /\ rules' = [i \in 1..Len(rules) |->
                IF rules[i].id = id /\ \A j \in 1..(i - 1) : rules[j].id # id
                  THEN [rules[i] EXCEPT !.enabled = ~@] ELSE rules[i]]
  /\ lastEval' = NoEval
  /\ UNCHANGED <<history, next_id, now, evaluations, issuedIds, firedLog, bufVars,
                 agentVars, storeVars, authVars, aggVars, rpcVars, libVars>>

\* AlertStore::evaluate
Evaluate(snapshot) ==
  /\ evaluations < MaxEvaluations
  /\ LET fired == Fired(rules, snapshot, now + 1)
     IN /\ history' = TrimHistory(history \o fired)
        /\ firedLog' = firedLog \o fired
        /\ lastEval' = [done |-> TRUE, snapshot |-> snapshot, fired |-> fired]
  /\ now' = now + 1
  /\ evaluations' = evaluations + 1
  /\ UNCHANGED <<rules, next_id, issuedIds, bufVars, agentVars, storeVars, authVars, aggVars,
                 rpcVars, libVars>>

NextAlerts ==
  \/ \E req \in RuleRequests : CreateRule(req)
  \/ \E n \in 1..MaxRulesCreated : DeleteRule(RuleId(n))
  \/ \E n \in 1..MaxRulesCreated : ToggleRule(RuleId(n))
  \/ \E snapshot \in Snapshots : Evaluate(snapshot)

NextAlertsAged ==
  \/ \E req \in AgedRuleRequests : CreateRule(req)
  \/ \E n \in 1..MaxRulesCreated : DeleteRule(RuleId(n))
  \/ \E n \in 1..MaxRulesCreated : ToggleRule(RuleId(n))
  \/ \E snapshot \in AgedSnapshots : Evaluate(snapshot)

\* ------------------------------------------------------------------------
\* Wire codec (shared/src/protocol/wire.rs, shared/src/types/events.rs)
\*
\* A payload is a sequence of bytes.  An integer field is kept as its
\* little-endian bytes (4 for u32 / i32, 8 for u64 / i64), a Vec<u64> as a
\* sequence of such, a String as its bytes, an Option as a sequence of length
\* at most one.  bincode with fixint encoding writes the fields of a struct
\* in declaration order, a Vec or String behind its length as a u64, an enum
\* variant behind its index as a u32, an Option behind one byte.
\* ------------------------------------------------------------------------
MaxWireEvents == 2     \* most events in a message put on the wire

PROTOCOL_VERSION == 1

U32(n) == <<n % 256, (n \div 256) % 256, 0, 0>>

U64(n) == <<n % 256, (n \div 256) % 256, 0, 0, 0, 0, 0, 0>>

\* a length read off the wire; one that does not fit two bytes is longer
\* than any payload
LenValue(b8) ==
  IF \E i \in 3..8 : b8[i] # 0 THEN 65536 ELSE b8[1] + 256 * b8[2]

\* the field types of the structs, in declaration order; the legacy structs
\* are the same without the trailing symbol arrays
EventFields(schema, tag) ==
  CASE tag = 0 -> <<"b8", "b4", "b4", "b4", "vec8", "vec8", "str">>
                   \o (IF schema = "current" THEN <<"syms", "syms">> ELSE <<>>)
    [] tag = 1 -> <<"b8", "b4", "b4", "b8", "b8", "b8", "vec8", "str">>
                   \o (IF schema = "current" THEN <<"syms">> ELSE <<>>)
    [] tag = 2 -> <<"b8", "b4", "b4", "b4", "b8", "b8", "str">>
    [] tag = 3 -> <<"b8", "b4", "str", "b8", "b4", "b4", "b4", "b4", "b4", "b4">>

Concat(ss) ==
  LET RECURSIVE Cat(_)
      Cat(i) == IF i > Len(ss) THEN <<>> ELSE ss[i] \o Cat(i + 1)
  IN Cat(1)

\* the length prefix of a Vec or String
WriteLenShort(n) == U32(n)

WriteLen(n) == U64(n)

WriteOption(o) == IF o = <<>> THEN <<0>> ELSE <<1>> \o WriteLen(Len(o[1])) \o o[1]

WriteField(type, v) ==
  CASE type \in {"b4", "b8"} -> v
    [] type = "vec8" -> WriteLen(Len(v)) \o Concat(v)
    [] type = "str" -> WriteLen(Len(v)) \o v
    [] type = "syms" -> WriteLen(Len(v)) \o Concat([i \in 1..Len(v) |-> WriteOption(v[i])])

WriteEvent(schema, e) ==
  U32(e.tag)
    \o Concat([i \in 1..Len(e.fields) |-> WriteField(EventFields(schema, e.tag)[i], e.fields[i])])

\* wire_bincode().serialize of a Message or LegacyMessage
Serialize(schema, m) ==
  m.version \o m.sequence \o WriteLen(Len(m.events))
    \o Concat([i \in 1..Len(m.events) |-> WriteEvent(schema, m.events[i])])

\* Message::to_bytes
ToBytes(m) == Serialize("current", m)

\* ---- reading: a result is [ok, pos, value], pos the next unread byte ----
ReadFail == [ok |-> FALSE, pos |-> 0, value |-> <<>>]

\* the `?` of the deserializer: go on with what was read, or fail with it
AndThen(read, Rest(_)) ==
  CHOOSE out \in {IF r.ok THEN Rest(r) ELSE ReadFail : r \in {read}} : TRUE

Take(b, pos, n) ==
  IF pos + n - 1 <= Len(b)
    THEN [ok |-> TRUE, pos |-> pos + n, value |-> SubSeq(b, pos, pos + n - 1)]
    ELSE ReadFail

\* n items, each read by Item(b, pos)
ReadMany(b, pos, n, Item(_, _)) ==
  LET RECURSIVE Go(_, _, _)
      Go(p, k, acc) ==
        IF k = 0 THEN [ok |-> TRUE, pos |-> p, value |-> acc]
        ELSE AndThen(Item(b, p), LAMBDA r : Go(r.pos, k - 1, Append(acc, r.value)))
  IN IF n > Len(b) THEN ReadFail ELSE Go(pos, n, <<>>)

\* a String: its length, then that many bytes of UTF-8 (bytes below 128 are
\* the UTF-8 the model uses; 255 never occurs in UTF-8)
ReadString(b, pos) ==
  AndThen(Take(b, pos, 8), LAMBDA l :
    AndThen(Take(b, l.pos, LenValue(l.value)), LAMBDA r :
      IF \A i \in 1..Len(r.value) : r.value[i] < 128 THEN r ELSE ReadFail))

ReadOption(b, pos) ==
  AndThen(Take(b, pos, 1), LAMBDA t :
    IF t.value = <<0>> THEN [ok |-> TRUE, pos |-> t.pos, value |-> <<>>]
    ELSE IF t.value = <<1>>
      THEN AndThen(ReadString(b, t.pos), LAMBDA r : [r EXCEPT !.value = <<r.value>>])
    ELSE ReadFail)

ReadU64(b, pos) == Take(b, pos, 8)

ReadField(type, b, pos) ==
  CASE type = "b4" -> Take(b, pos, 4)
    [] type = "b8" -> Take(b, pos, 8)
    [] type = "str" -> ReadString(b, pos)
    [] type = "vec8" ->
         AndThen(Take(b, pos, 8), LAMBDA l : ReadMany(b, l.pos, LenValue(l.value), ReadU64))
    [] type = "syms" ->
         AndThen(Take(b, pos, 8), LAMBDA l : ReadMany(b, l.pos, LenValue(l.value), ReadOption))

ReadFields(types, b, pos) ==
  LET RECURSIVE Go(_, _, _)
      Go(p, i, acc) ==
        IF i > Len(types) THEN [ok |-> TRUE, pos |-> p, value |-> acc]
        ELSE AndThen(ReadField(types[i], b, p), LAMBDA r : Go(r.pos, i + 1, Append(acc, r.value)))
  IN Go(pos, 1, <<>>)

\* an enum variant index, then the variant's struct
ReadEvent(schema, b, pos) ==
  AndThen(Take(b, pos, 4), LAMBDA t :
    IF ~\E tag \in 0..3 : t.value = U32(tag) THEN ReadFail
    ELSE AndThen(ReadFields(EventFields(schema, CHOOSE k \in 0..3 : t.value = U32(k)), b, t.pos),
                 LAMBDA r : [r EXCEPT !.value = [tag |-> CHOOSE k \in 0..3 : t.value = U32(k),
                                                 fields |-> r.value]]))

ReadEvents(schema, b, pos, n) ==
  ReadMany(b, pos, n, LAMBDA bytes, at : ReadEvent(schema, bytes, at))

\* wire_bincode().deserialize::<Message> / ::<LegacyMessage>: fixint, and
\* bytes left over after the value are allowed
Deserialize(schema, b) ==
  CHOOSE out \in
    { IF r.ok THEN [ok |-> TRUE, value |-> r.value] ELSE [ok |-> FALSE, value |-> <<>>] :
      r \in { AndThen(Take(b, 1, 4), LAMBDA v :
                AndThen(Take(b, v.pos, 8), LAMBDA q :
                  AndThen(Take(b, q.pos, 8), LAMBDA l :
                    AndThen(ReadEvents(schema, b, l.pos, LenValue(l.value)), LAMBDA es :
                      [es EXCEPT !.value = [version |-> v.value, sequence |-> q.value,
                                            events |-> es.value]])))) } } : TRUE

\* bincode::deserialize, the function: for historic reasons its options are
\* fixint and trailing bytes allowed, the same as wire_bincode()
BincodeDeserialize(schema, b) == Deserialize(schema, b)

\* LegacyProfileEvent::into_current / LegacyMessage::into_current
EventIntoCurrent(e) ==
  [e EXCEPT !.fields = @ \o (CASE e.tag = 0 -> <<<<>>, <<>>>>
                               [] e.tag = 1 -> <<<<>>>>
                               [] OTHER -> <<>>)]

IntoCurrent(m) == [m EXCEPT !.events = [i \in 1..Len(m.events) |-> EventIntoCurrent(m.events[i])]]

\* the four attempts of Message::from_bytes, in order: Message by
\* wire_bincode(), Message by bincode::deserialize, LegacyMessage by
\* wire_bincode() and by bincode::deserialize, the last two .into_current()
Attempt(k, b) ==
  CHOOSE out \in
    { IF r.ok /\ k >= 3 THEN [r EXCEPT !.value = IntoCurrent(r.value)] ELSE r :
      r \in { IF k \in {1, 3}
                THEN Deserialize(IF k = 1 THEN "current" ELSE "legacy", b)
                ELSE BincodeDeserialize(IF k = 2 THEN "current" ELSE "legacy", b) } } : TRUE

\* `if msg.version == PROTOCOL_VERSION`
VersionOk(m) == m.version = U32(PROTOCOL_VERSION)

Decoded(k, r) == [ok |-> TRUE, attempt |-> k, value |-> r.value, error |-> ""]

\* Message::from_bytes: each attempt returns only when it decodes and the
\* version is the current one; otherwise the next attempt runs; after the
\* last one there is one error for every failure
FromBytes(b) ==
  CHOOSE out \in
    { IF a[1].ok /\ VersionOk(a[1].value) THEN Decoded(1, a[1])
      ELSE IF a[2].ok /\ VersionOk(a[2].value) THEN Decoded(2, a[2])
      ELSE IF a[3].ok /\ VersionOk(a[3].value) THEN Decoded(3, a[3])
      ELSE IF a[4].ok /\ VersionOk(a[4].value) THEN Decoded(4, a[4])
      ELSE [ok |-> FALSE, attempt |-> 0, value |-> <<>>,
            error |-> "failed to decode message: neither current nor legacy schema succeeded"] :
      a \in {[k \in 1..4 |-> Attempt(k, b)]} } : TRUE

\* ---- what is put on the wire ----
\* Message::new
NewMessage(sequence, events) ==
  [version |-> U32(PROTOCOL_VERSION), sequence |-> U64(sequence), events |-> events]

Ev(tag, fields) == [tag |-> tag, fields |-> fields]

\* events of the current schema: a CpuSample with symbols, a LockEvent, a
\* SyscallEvent, a GpuKernelEvent
CurrentEvents ==
  { Ev(0, <<U64(1000), U32(1), U32(1), U32(0), <<U64(256)>>, <<>>, <<115, 121, 109>>,
           <<<<<<109, 97, 105, 110>>>>, <<>>>>, <<>>>>),
    Ev(1, <<U64(6000), U32(10), U32(11), U64(43981), U64(0), U64(300), <<U64(12288)>>,
           <<111>>, <<<<>>>>>>),
    Ev(2, <<U64(7), U32(1), U32(2), U32(198), U64(1000), U64(0), <<116>>>>),
    Ev(3, <<U64(9), U32(1), <<107>>, U64(5), U32(1), U32(1), U32(1), U32(2), U32(2), U32(2)>>) }

\* events of the legacy schema: a CpuSample, a LockEvent, a SyscallEvent and
\* a CpuSample of the idle task (pid 0) whose frames are small numbers
LegacyEvents ==
  { Ev(0, <<U64(5000), U32(10), U32(11), U32(0), <<U64(4096), U64(8192)>>, <<U64(1)>>,
           <<111, 108, 100>>>>),
    Ev(1, <<U64(6000), U32(10), U32(11), U64(43981), U64(0), U64(300), <<U64(12288)>>, <<111>>>>),
    Ev(2, <<U64(7), U32(1), U32(2), U32(198), U64(1000), U64(0), <<116>>>>),
    Ev(0, <<U64(0), U32(0), U32(0), U32(0),
           <<U64(0), U64(0), U64(0), U64(0), U64(1), U64(0)>>, <<>>, <<>>>>) }

\* payloads that no encoder of this repository wrote: nothing at all, and
\* twenty bytes of 0xFF
RawPayloads == {<<>>, [i \in 1..20 |-> 255]}

WireInputs ==
  {[kind |-> "message", message |-> NewMessage(42, es)] : es \in SeqsUpTo(CurrentEvents, MaxWireEvents)}
    \cup {[kind |-> "legacy", message |-> NewMessage(99, es)] : es \in SeqsUpTo(LegacyEvents, MaxWireEvents)}
    \cup {[kind |-> "foreign", message |-> [NewMessage(7, es) EXCEPT !.version = U32(2)]] :
            es \in SeqsUpTo(CurrentEvents, 1)}
    \cup {[kind |-> "raw", message |-> raw] : raw \in RawPayloads}

NoDecode == [ok |-> FALSE, attempt |-> 0, value |-> <<>>, error |-> ""]

InitWire ==
  /\ wireIn \in WireInputs
  /\ wireBytes = <<>>
  /\ wireOut = NoDecode
  /\ wirePc = "start"

ParkedWire ==
  /\ wireIn = [kind |-> "raw", message |-> <<>>]
  /\ wireBytes = <<>>
  /\ wireOut = NoDecode
  /\ wirePc = "start"

\* an agent of this version (or of another protocol version) encodes its message
EncodeMessage ==
  /\ wirePc = "start"
  /\ wireIn.kind \in {"message", "foreign"}
  /\ wireBytes' = ToBytes(wireIn.message)
  /\ wirePc' = "encoded"
  /\ UNCHANGED <<wireIn, wireOut, besidesWire>>

\* an agent built before the symbol fields encodes its message
EncodeLegacy ==
  /\ wirePc = "start"
  /\ wireIn.kind = "legacy"
  /\ wireBytes' = Serialize("legacy", wireIn.message)
  /\ wirePc' = "encoded"
  /\ UNCHANGED <<wireIn, wireOut, besidesWire>>

\* bytes arrive that nobody encoded
ReceiveRaw ==
  /\ wirePc = "start"
  /\ wireIn.kind = "raw"
  /\ wireBytes' = wireIn.message
  /\ wirePc' = "encoded"
  /\ UNCHANGED <<wireIn, wireOut, besidesWire>>

\* Message::from_bytes on the payload
DecodePayload ==
  /\ wirePc = "encoded"
  /\ wireOut' = FromBytes(wireBytes)
  /\ wirePc' = "decoded"
  /\ UNCHANGED <<wireIn, wireBytes, besidesWire>>

NextWire ==
  \/ EncodeMessage
  \/ EncodeLegacy
  \/ ReceiveRaw
  \/ DecodePayload

\* ------------------------------------------------------------------------
\* Syscall latency histogram (shared/src/types/profile.rs)
\*
\* A SyscallProfile receives syscalls one by one.  The durations are chosen
\* around the bucket borders and beyond the last bucket; each call is
\* recorded once, which keeps every total below 2^31.
\* ------------------------------------------------------------------------
SyscallCalls ==
  { [id |-> 1, duration_ns |-> 0, return_value |-> 0],
    [id |-> 1, duration_ns |-> 1, return_value |-> -1],
    [id |-> 1, duration_ns |-> 2, return_value |-> 0],
    [id |-> 1, duration_ns |-> 3, return_value |-> 0],
    [id |-> 2, duration_ns |-> 1024, return_value |-> 3],
    [id |-> 2, duration_ns |-> 536870912, return_value |-> 0],
    [id |-> 1, duration_ns |-> 1073741824, return_value |-> 0],
    [id |-> 2, duration_ns |-> 1073741829, return_value |-> -4],
    [id |-> 3, duration_ns |-> 2147483647, return_value |-> 0] }

InitHist ==
  /\ sysProfile = SyscallProfileNew(0)
  /\ sysRecorded = {}

ParkedHist == InitHist

\* profile.add_syscall(id, name, duration_ns, return_value)
RecordSyscall(c) ==
  /\ c \notin sysRecorded
  /\ sysProfile' = AddSyscall(sysProfile, c.id, c.duration_ns, c.return_value)
  /\ sysRecorded' = sysRecorded \cup {c}
  /\ UNCHANGED besidesHist

NextHist == \E c \in SyscallCalls : RecordSyscall(c)

\* ------------------------------------------------------------------------
\* Diff engine (shared/src/types/diff.rs)
\*
\* An f64 average or percentage is kept as the fraction it rounds, in lowest
\* terms with a positive denominator.
\* ------------------------------------------------------------------------
MaxDiffSamples == 2    \* most events recorded into a profile that is diffed

RECURSIVE Gcd(_, _)
Gcd(a, b) == IF b = 0 THEN a ELSE Gcd(b, a % b)

Frac(n, d) == <<n \div Gcd(Abs(n), d), d \div Gcd(Abs(n), d)>>

FracSub(x, y) == Frac(x[1] * y[2] - y[1] * x[2], x[2] * y[2])

GetOr(m, k, default) == IF k \in DOMAIN m THEN m[k] ELSE default

\* the HashSet of the keys of both maps
AllKeysBaseline(baseline_map, comparison_map) == DOMAIN baseline_map

AllKeys(baseline_map, comparison_map) == (DOMAIN baseline_map) \cup (DOMAIN comparison_map)

\* what `sort_by(|a, b| |b.delta|.cmp(|a.delta|))` can make of the entries:
\* the sort is stable and the HashSet hands them over in any order, so
\* entries of equal |delta| come out in any order
SortedByAbs(entries, Delta(_)) ==
  {s \in [1..Cardinality(entries) -> entries] :
     /\ \A i, j \in 1..Cardinality(entries) : i # j => s[i] # s[j]
     /\ \A i \in 1..(Cardinality(entries) - 1) : Abs(Delta(s[i])) >= Abs(Delta(s[i + 1]))}

StackDiff(baseline, comparison, stack) ==
  LET b == GetOr(baseline.samples, stack, 0)
      c == GetOr(comparison.samples, stack, 0)
  IN [stack |-> stack, baseline_count |-> b, comparison_count |-> c, delta |-> c - b,
      delta_pct |-> IF b > 0 THEN Frac((c - b) * 100, b) ELSE <<0, 1>>]

\* diff_cpu: every CpuDiff the call can return
DiffCpu(baseline, comparison) ==
  {[baseline_total |-> baseline.total_samples,
    comparison_total |-> comparison.total_samples,
    stacks |-> stacks] :
     stacks \in SortedByAbs({StackDiff(baseline, comparison, k) :
                               k \in AllKeys(baseline.samples, comparison.samples)},
                            LAMBDA e : e.delta)}

AvgNs(m, id) ==
  IF id \in DOMAIN m /\ m[id].count > 0 THEN Frac(m[id].total_duration_ns, m[id].count)
  ELSE <<0, 1>>

SyscallStatsDiff(baseline, comparison, id) ==
  LET b_count == IF id \in DOMAIN baseline.syscalls THEN baseline.syscalls[id].count ELSE 0
      c_count == IF id \in DOMAIN comparison.syscalls THEN comparison.syscalls[id].count ELSE 0
  IN [syscall_id |-> id, baseline_count |-> b_count, comparison_count |-> c_count,
      delta_count |-> c_count - b_count,
      baseline_avg_ns |-> AvgNs(baseline.syscalls, id),
      comparison_avg_ns |-> AvgNs(comparison.syscalls, id),
      delta_avg_ns |-> FracSub(AvgNs(comparison.syscalls, id), AvgNs(baseline.syscalls, id))]

\* diff_syscall: every SyscallDiff the call can return
DiffSyscall(baseline, comparison) ==
  {[baseline_total |-> baseline.total_events,
    comparison_total |-> comparison.total_events,
    syscalls |-> syscalls] :
     syscalls \in SortedByAbs({SyscallStatsDiff(baseline, comparison, k) :
                                 k \in AllKeys(baseline.syscalls, comparison.syscalls)},
                              LAMBDA e : e.delta_count)}

LockContentionDiff(baseline, comparison, key) ==
  LET b == baseline.contentions
      c == comparison.contentions
  IN [lock_addr |-> key[1], stack |-> key[2],
      baseline_count |-> IF key \in DOMAIN b THEN b[key].count ELSE 0,
      comparison_count |-> IF key \in DOMAIN c THEN c[key].count ELSE 0,
      delta_wait_ns |-> (IF key \in DOMAIN c THEN c[key].total_wait_ns ELSE 0)
                          - (IF key \in DOMAIN b THEN b[key].total_wait_ns ELSE 0)]

\* diff_lock: every LockDiff the call can return
DiffLock(baseline, comparison) ==
  {[baseline_total |-> baseline.total_events,
    comparison_total |-> comparison.total_events,
    contentions |-> contentions] :
     contentions \in SortedByAbs({LockContentionDiff(baseline, comparison, k) :
                                    k \in AllKeys(baseline.contentions, comparison.contentions)},
                                 LAMBDA e : e.delta_wait_ns)}

\* ---- the profiles that are diffed: built event by event ----
Recorded(p, events, Add(_, _)) ==
  LET RECURSIVE Go(_, _)
      Go(acc, i) == IF i > Len(events) THEN acc ELSE Go(Add(acc, events[i]), i + 1)
  IN Go(p, 1)

DiffStacks == {<<1>>, <<1, 2>>}

DiffSyscalls == {<<1, 10>>, <<1, 30>>, <<2, 5>>}

DiffContentions == {<<7, <<1>>, 100>>, <<7, <<1>>, 40>>, <<8, <<2>>, 100>>}

CpuProfiles ==
  {Recorded(ProfileNew(0, 0, 0), es, ProfileAddSample) : es \in SeqsUpTo(DiffStacks, MaxDiffSamples)}

SyscallProfiles ==
  {Recorded(SyscallProfileNew(0), es, LAMBDA p, e : AddSyscall(p, e[1], e[2], 0)) :
     es \in SeqsUpTo(DiffSyscalls, MaxDiffSamples)}

LockProfiles ==
  {Recorded(LockProfileNew(0), es, LAMBDA p, e : AddContention(p, e[1], e[2], e[3])) :
     es \in SeqsUpTo(DiffContentions, MaxDiffSamples)}

DiffInputs ==
  {[kind |-> "cpu", a |-> a, b |-> b] : a \in CpuProfiles, b \in CpuProfiles}
    \cup {[kind |-> "syscall", a |-> a, b |-> b] : a \in SyscallProfiles, b \in SyscallProfiles}
    \cup {[kind |-> "lock", a |-> a, b |-> b] : a \in LockProfiles, b \in LockProfiles}

NoDiff == <<>>

InitDiff ==
  /\ diffIn \in DiffInputs
  /\ diffFwd = NoDiff
  /\ diffRev = NoDiff
  /\ diffPc = "start"

ParkedDiff ==
  /\ diffIn = [kind |-> "cpu", a |-> ProfileNew(0, 0, 0), b |-> ProfileNew(0, 0, 0)]
  /\ diffFwd = NoDiff
  /\ diffRev = NoDiff
  /\ diffPc = "start"

\* diff_cpu(a, b) and diff_cpu(b, a)
DiffCpuBothWays ==
  /\ diffPc = "start"
  /\ diffIn.kind = "cpu"
  /\ diffFwd' \in DiffCpu(diffIn.a, diffIn.b)
  /\ diffRev' \in DiffCpu(diffIn.b, diffIn.a)
  /\ diffPc' = "done"
  /\ UNCHANGED <<diffIn, besidesDiff>>

\* diff_syscall(a, b) and diff_syscall(b, a)
DiffSyscallBothWays ==
  /\ diffPc = "start"
  /\ diffIn.kind = "syscall"
  /\ diffFwd' \in DiffSyscall(diffIn.a, diffIn.b)
  /\ diffRev' \in DiffSyscall(diffIn.b, diffIn.a)
  /\ diffPc' = "done"
  /\ UNCHANGED <<diffIn, besidesDiff>>

\* diff_lock(a, b) and diff_lock(b, a)
DiffLockBothWays ==
  /\ diffPc = "start"
  /\ diffIn.kind = "lock"
  /\ diffFwd' \in DiffLock(diffIn.a, diffIn.b)
  /\ diffRev' \in DiffLock(diffIn.b, diffIn.a)
  /\ diffPc' = "done"
  /\ UNCHANGED <<diffIn, besidesDiff>>

NextDiff ==
  \/ DiffCpuBothWays
  \/ DiffSyscallBothWays
  \/ DiffLockBothWays

\* ------------------------------------------------------------------------
\* retry_with_backoff (agent/src/retry.rs)
\*
\* Durations are in milliseconds.  The k-th call of the operation returns
\* Ok(k) or Err(k), as retryIn.outcomes[k] says.
\* ------------------------------------------------------------------------
MaxRetryAttempts == 3      \* largest max_attempts a caller passes

DELAY_CAP == 30000         \* Duration::from_secs(30)

RetryInputs ==
  [max_attempts : 0..MaxRetryAttempts,
   initial_delay : {100, 20000},
   outcomes : [1..MaxRetryAttempts -> {"ok", "err"}]]

InitRetry ==
  /\ retryIn \in RetryInputs
  /\ retryAttempt = 1
  /\ retryDelay = retryIn.initial_delay
  /\ retryLastErr = <<>>
  /\ retryCalls = 0
  /\ retrySleeps = <<>>
  /\ retryPc = "call"
  /\ retryResult = <<>>

ParkedRetry ==
  /\ retryIn = [max_attempts |-> 0, initial_delay |-> 100,
                outcomes |-> [k \in 1..MaxRetryAttempts |-> "ok"]]
  /\ retryAttempt = 1
  /\ retryDelay = 100
  /\ retryLastErr = <<>>
  /\ retryCalls = 0
  /\ retrySleeps = <<>>
  /\ retryPc = "call"
  /\ retryResult = <<>>

\* one pass of the loop body up to its first await point after f: the
\* call, and on Err the bookkeeping
CallOperation ==
  /\ retryPc = "call"
  /\ retryAttempt <= retryIn.max_attempts
  /\ retryCalls' = retryCalls + 1
  /\ IF retryIn.outcomes[retryCalls + 1] = "ok"
       THEN /\ retryResult' = [ok |-> TRUE, value |-> retryCalls + 1]
            /\ retryPc' = "returned"
            /\ UNCHANGED <<retryAttempt, retryLastErr>>
       ELSE /\ retryLastErr' = <<retryCalls + 1>>
            /\ IF retryAttempt < retryIn.max_attempts
                 THEN retryPc' = "sleep" /\ UNCHANGED retryAttempt
                 ELSE retryPc' = "call" /\ retryAttempt' = retryAttempt + 1
            /\ UNCHANGED retryResult
  /\ UNCHANGED <<retryIn, retryDelay, retrySleeps, besidesRetry>>

\* tokio::time::sleep(delay).await; delay = (delay * 2).min(30 s)
SleepBackoff ==
  /\ retryPc = "sleep"
  /\ retrySleeps' = Append(retrySleeps, retryDelay)
  /\ retryDelay' = Min(retryDelay * 2, DELAY_CAP)
  /\ retryAttempt' = retryAttempt + 1
  /\ retryPc' = "call"
  /\ UNCHANGED <<retryIn, retryLastErr, retryCalls, retryResult, besidesRetry>>

\* the loop is over: Err(last_err.unwrap())
ReturnLastErr ==
  /\ retryPc = "call"
  /\ retryAttempt > retryIn.max_attempts
  /\ IF retryLastErr # <<>>
       THEN /\ retryResult' = [ok |-> FALSE, value |-> retryLastErr[1]]
            /\ retryPc' = "returned"
       ELSE /\ retryPc' = "panicked"
            /\ UNCHANGED retryResult
  /\ UNCHANGED <<retryIn, retryAttempt, retryDelay, retryLastErr, retryCalls, retrySleeps, besidesRetry>>

NextRetry ==
  \/ CallOperation
  \/ SleepBackoff
  \/ ReturnLastErr

\* ------------------------------------------------------------------------
\* Timestamps of the ClickHouse store (aggregator/src/storage/clickhouse.rs)
\*
\* An i64 timestamp since the epoch is held as <<a, b, c>>, its digits to the
\* base 10^6: a * 10^12 + b * 10^6 + c, with b and c below 10^6.
\* ------------------------------------------------------------------------
MaxTsRows == 1         \* rows enqueued in one run

Million == 1000000

\* 1_000_000_000_000_000
TenTo15 == <<1000, 0, 0>>

\* x >= y
TsGe(x, y) ==
  \/ x[1] > y[1]
  \/ x[1] = y[1] /\ x[2] > y[2]
  \/ x[1] = y[1] /\ x[2] = y[2] /\ x[3] >= y[3]

\* x / 1_000_000
DivMillion(x) == <<x[1] \div Million, x[1] % Million, x[2]>>

\* to_millis
ToMillis(ts) == IF TsGe(ts, TenTo15) THEN DivMillion(ts) ELSE ts

\* enqueue_batch: `let received_at_ms = received_at_ns / 1_000_000;`
ReceivedAtMs(received_at_ns) == DivMillion(received_at_ns)

\* the timestamps tried: 0; 1; 10^6; a current time in ms; 10^15 - 1; 10^15;
\* a current time in ns
TsValues ==
  {<<0, 0, 0>>, <<0, 0, 1>>, <<0, 1, 0>>, <<1, 700000, 5>>, <<999, 999999, 999999>>,
   <<1000, 0, 0>>, <<1700000, 123456, 789012>>}

\* Option<i64>
TsOptions == {<<>>} \cup {<<v>> : v \in TsValues}

\* `if let Some(ts) = .. { q = q.bind(to_millis(ts)); }`
Bound(opt) == IF opt = <<>> THEN <<>> ELSE <<ToMillis(opt[1])>>

NoTsQuery == [done |-> FALSE, time_start_ns |-> <<>>, time_end_ns |-> <<>>,
              start_ms |-> <<>>, end_ms |-> <<>>, rows |-> <<>>]

InitTs ==
  /\ tsRows = <<>>
  /\ tsQuery = NoTsQuery

ParkedTs == InitTs

\* write_batch -> enqueue_batch: the row with its received_at_ms
TsEnqueueBatch(received_at_ns) ==
  /\ Len(tsRows) < MaxTsRows
  /\ tsRows' = Append(tsRows, [received_at_ns |-> received_at_ns,
                               received_at_ms |-> ReceivedAtMs(received_at_ns)])
  /\ UNCHANGED <<tsQuery, besidesTs>>

\* fetch_batches: WHERE received_at_ms >= ? AND received_at_ms <= ?, with the
\* range bound through to_millis
TsFetchBatches(time_start_ns, time_end_ns) ==
  LET a == Bound(time_start_ns)
      b == Bound(time_end_ns)
      Matches(row) == /\ a # <<>> => TsGe(row.received_at_ms, a[1])
                      /\ b # <<>> => TsGe(b[1], row.received_at_ms)
  IN /\ tsQuery' = [done |-> TRUE, time_start_ns |-> time_start_ns, time_end_ns |-> time_end_ns,
                    start_ms |-> a, end_ms |-> b, rows |-> SelectSeq(tsRows, Matches)]
     /\ UNCHANGED <<tsRows, besidesTs>>

NextTs ==
  \/ \E ns \in TsValues : TsEnqueueBatch(ns)
  \/ \E s \in TsOptions : \E e \in TsOptions : TsFetchBatches(s, e)

\* ------------------------------------------------------------------------
\* run_cpu_profiler: the tasks and the handles they hold (agent/src/lib.rs)
\*
\* A spawned task owns clones of the collector Arc (and a reader of the
\* stack_map Arc) until its future is dropped.  abort() marks the task; the
\* task is dropped at its next await instead of being resumed; awaiting its
\* JoinHandle returns once it has been dropped.
\* ------------------------------------------------------------------------
MaxCpSamples == 3      \* records the probes deliver in one run, over all CPUs

MaxBatch == 2          \* records one read_events call returns, at most

Readers == {"cpu0", "cpu1"}

\* what one read_events call can return: per record, whether it is shorter
\* than a SampleEvent
ReadBatches == UNION {[1..n -> BOOLEAN] : n \in 1..MaxBatch}

InitCp ==
  /\ cpConfig \in [aggregator_url : BOOLEAN]
  /\ cpPhase = "profiling"
  /\ cpReaders = [r \in Readers |-> "read"]
  /\ cpPusher = IF cpConfig.aggregator_url THEN "sleep" ELSE "none"
  /\ cpAborted = {}
  /\ cpHolders = {"main"} \cup Readers \cup (IF cpConfig.aggregator_url THEN {"pusher"} ELSE {})
  /\ cpStackHolders = {"main"} \cup Readers
  /\ cpSamples = 0
  /\ cpCursor = 0
  /\ cpLog = <<>>
  /\ cpDrain = [done |-> FALSE, len |-> 0, taken |-> 0]
  /\ cpRing = [r \in Readers |-> 0]
  /\ cpBatch = [r \in Readers |-> <<>>]
  /\ cpEvents = <<>>

ParkedCp ==
  /\ cpConfig = [aggregator_url |-> FALSE]
  /\ cpPhase = "profiling"
  /\ cpReaders = [r \in Readers |-> "read"]
  /\ cpPusher = "none"
  /\ cpAborted = {}
  /\ cpHolders = {"main"} \cup Readers
  /\ cpStackHolders = {"main"} \cup Readers
  /\ cpSamples = 0
  /\ cpCursor = 0
  /\ cpLog = <<>>
  /\ cpDrain = [done |-> FALSE, len |-> 0, taken |-> 0]
  /\ cpRing = [r \in Readers |-> 0]
  /\ cpBatch = [r \in Readers |-> <<>>]
  /\ cpEvents = <<>>

\* nobody is inside collector.lock()
CollectorFree == \A r \in Readers : cpReaders[r] # "process"

\* the records of a batch from the first of full size on: a record shorter
\* than a SampleEvent is passed over, with no await in between
FromFullSize(batch) ==
  LET RECURSIVE Skip(_)
      Skip(i) == IF i > Len(batch) THEN <<>>
                 ELSE IF batch[i].short THEN Skip(i + 1)
                 ELSE SubSeq(batch, i, Len(batch))
  IN Skip(1)

\* the reader's next await: collector.lock() for the record at the head of the
\* batch, or read_events when the batch is used up
AwaitOf(batch) == IF batch = <<>> THEN "read" ELSE "lock"

\* CpuCollector::add_sample: self.samples.push(sample)
AddSampleAtFront(collected, sample) == <<sample>> \o collected

AddSample(collected, sample) == Append(collected, sample)

\* the records read from all the ring buffers so far
RecordsRead(ring) ==
  LET RECURSIVE Sum(_)
      Sum(S) == IF S = {} THEN 0
                ELSE LET x == CHOOSE x \in S : TRUE IN ring[x] + Sum(S \ {x})
  IN Sum(Readers)

\* buf.read_events(..).await returns the next n records of the ring buffer,
\* in the ring buffer's order
ReaderRead(r, shorts) ==
  /\ cpReaders[r] = "read"
  /\ r \notin cpAborted
  /\ LET n == Len(shorts)
         batch == [i \in 1..n |-> [at |-> cpRing[r] + i, short |-> shorts[i]]]
         todo == FromFullSize(batch)
     IN /\ RecordsRead(cpRing) + n <= MaxCpSamples
        /\ cpRing' = [cpRing EXCEPT ![r] = @ + n]
        /\ cpBatch' = [cpBatch EXCEPT ![r] = todo]
        /\ cpReaders' = [cpReaders EXCEPT ![r] = AwaitOf(todo)]
  /\ UNCHANGED <<cpConfig, cpPhase, cpPusher, cpAborted, cpHolders, cpStackHolders, cpSamples,
                 cpCursor, cpLog, cpDrain, cpEvents, besidesCp>>

\* collector.lock().await is granted
ReaderLock(r) ==
  /\ cpReaders[r] = "lock"
  /\ r \notin cpAborted
  /\ CollectorFree
  /\ cpReaders' = [cpReaders EXCEPT ![r] = "process"]
  /\ UNCHANGED <<cpConfig, cpPhase, cpPusher, cpAborted, cpHolders, cpStackHolders, cpSamples,
                 cpCursor, cpLog, cpDrain, cpOrderVars, besidesCp>>

\* coll.process_event(..) appends the sample; the guard is dropped and the
\* loop goes on to the next record of the batch, or back to read_events
ReaderProcess(r) ==
  /\ cpReaders[r] = "process"
  /\ LET todo == FromFullSize(Tail(cpBatch[r]))
     IN /\ cpEvents' = AddSample(cpEvents, <<r, Head(cpBatch[r]).at>>)
        /\ cpSamples' = cpSamples + 1
        /\ cpBatch' = [cpBatch EXCEPT ![r] = todo]
        /\ cpReaders' = [cpReaders EXCEPT ![r] = AwaitOf(todo)]
  /\ UNCHANGED <<cpConfig, cpPhase, cpPusher, cpAborted, cpHolders, cpStackHolders, cpCursor,
                 cpLog, cpDrain, cpRing, besidesCp>>

\* an aborted reader is dropped at its await, and its Arc clones and the
\* records it had not handled with it
ReaderDropped(r) ==
  /\ cpReaders[r] \in {"read", "lock"}
  /\ r \in cpAborted
  /\ cpReaders' = [cpReaders EXCEPT ![r] = "gone"]
  /\ cpBatch' = [cpBatch EXCEPT ![r] = <<>>]
  /\ cpHolders' = cpHolders \ {r}
  /\ cpStackHolders' = cpStackHolders \ {r}
  /\ UNCHANGED <<cpConfig, cpPhase, cpPusher, cpAborted, cpSamples, cpCursor, cpLog, cpDrain,
                 cpRing, cpEvents, besidesCp>>

\* the pusher's sleep is over: coll.lock().await.take_pending_events()
PusherTake ==
  /\ cpPusher = "sleep"
  /\ "pusher" \notin cpAborted
  /\ CollectorFree
  /\ cpCursor' = cpSamples
  /\ cpPusher' = "push"
  /\ UNCHANGED <<cpConfig, cpPhase, cpReaders, cpAborted, cpHolders, cpStackHolders, cpSamples,
                 cpLog, cpDrain, cpOrderVars, besidesCp>>

\* push_to_aggregator_with_retry(..).await returns
PusherPushed ==
  /\ cpPusher = "push"
  /\ "pusher" \notin cpAborted
  /\ cpPusher' = "sleep"
  /\ UNCHANGED <<cpConfig, cpPhase, cpReaders, cpAborted, cpHolders, cpStackHolders, cpSamples,
                 cpCursor, cpLog, cpDrain, cpOrderVars, besidesCp>>

\* the aborted pusher is dropped at its await
PusherDropped ==
  /\ cpPusher \in {"sleep", "push"}
  /\ "pusher" \in cpAborted
  /\ cpPusher' = "gone"
  /\ cpHolders' = cpHolders \ {"pusher"}
  /\ UNCHANGED <<cpConfig, cpPhase, cpReaders, cpAborted, cpStackHolders, cpSamples, cpCursor,
                 cpLog, cpDrain, cpOrderVars, besidesCp>>

\* `let _ = handle.await` goes on once the task is gone
NotJoined(states) == TRUE

Joined(states) == \A st \in states : st \in {"gone", "none"}

\* the profiling duration is over: `h.abort()` of the push handle, if any
AbortPusher ==
  /\ cpPhase = "profiling"
  /\ cpAborted' = IF cpPusher = "none" THEN cpAborted ELSE cpAborted \cup {"pusher"}
  /\ cpLog' = IF cpPusher = "none" THEN cpLog ELSE Append(cpLog, "abort_pusher")
  /\ cpPhase' = "pusher_aborted"
  /\ UNCHANGED <<cpConfig, cpReaders, cpPusher, cpHolders, cpStackHolders, cpSamples, cpCursor,
                 cpDrain, cpOrderVars, besidesCp>>

\* `let _ = h.await`
AwaitPusher ==
  /\ cpPhase = "pusher_aborted"
  /\ Joined({cpPusher})
  /\ cpLog' = IF cpPusher = "none" THEN cpLog ELSE Append(cpLog, "await_pusher")
  /\ cpPhase' = "pusher_joined"
  /\ UNCHANGED <<cpConfig, cpReaders, cpPusher, cpAborted, cpHolders, cpStackHolders, cpSamples,
                 cpCursor, cpDrain, cpOrderVars, besidesCp>>

\* `for handle in &handles { handle.abort(); }`
AbortReaders ==
  /\ cpPhase = "pusher_joined"
  /\ cpAborted' = cpAborted \cup Readers
  /\ cpLog' = Append(cpLog, "abort_readers")
  /\ cpPhase' = "readers_aborted"
  /\ UNCHANGED <<cpConfig, cpReaders, cpPusher, cpHolders, cpStackHolders, cpSamples, cpCursor,
                 cpDrain, cpOrderVars, besidesCp>>

\* `for handle in handles { let _ = handle.await; }`
AwaitReaders ==
  /\ cpPhase = "readers_aborted"
  /\ Joined({cpReaders[r] : r \in Readers})
  /\ cpLog' = Append(cpLog, "await_readers")
  /\ cpPhase' = "readers_joined"
  /\ UNCHANGED <<cpConfig, cpReaders, cpPusher, cpAborted, cpHolders, cpStackHolders, cpSamples,
                 cpCursor, cpDrain, cpOrderVars, besidesCp>>

\* `profiler.stop()?`: on Err run_cpu_profiler returns it
StopProbes(ok) ==
  /\ cpPhase = "readers_joined"
  /\ cpLog' = Append(cpLog, "stop_probes")
  /\ cpPhase' = IF ok THEN "stopped" ELSE "stop_failed"
  /\ UNCHANGED <<cpConfig, cpReaders, cpPusher, cpAborted, cpHolders, cpStackHolders, cpSamples,
                 cpCursor, cpDrain, cpOrderVars, besidesCp>>

\* `drop(stack_map)`
DropStackMap ==
  /\ cpPhase = "stopped"
  /\ cpStackHolders' = cpStackHolders \ {"main"}
  /\ cpLog' = Append(cpLog, "drop_stack_map")
  /\ cpPhase' = "stack_map_dropped"
  /\ UNCHANGED <<cpConfig, cpReaders, cpPusher, cpAborted, cpHolders, cpSamples, cpCursor,
                 cpDrain, cpOrderVars, besidesCp>>

\* `Arc::try_unwrap(collector)`: Ok only for the last holder
UnwrapCollector ==
  /\ cpPhase = "stack_map_dropped"
  /\ cpLog' = Append(cpLog, "unwrap_collector")
  /\ cpPhase' = IF cpHolders = {"main"} THEN "unwrapped" ELSE "unwrap_failed"
  /\ UNCHANGED <<cpConfig, cpReaders, cpPusher, cpAborted, cpHolders, cpStackHolders, cpSamples,
                 cpCursor, cpDrain, cpOrderVars, besidesCp>>

\* with aggregator_url set: the final take_pending_events, symbolize_events
\* and push; without: straight on to build_profile
FinalPush ==
  /\ cpPhase = "unwrapped"
  /\ IF cpConfig.aggregator_url
       THEN /\ cpDrain' = [done |-> TRUE, len |-> cpSamples, taken |-> cpSamples - cpCursor]
            /\ cpCursor' = cpSamples
            /\ cpLog' = Append(cpLog, "final_push")
       ELSE UNCHANGED <<cpDrain, cpCursor, cpLog>>
  /\ cpPhase' = "build_profile"
  /\ UNCHANGED <<cpConfig, cpReaders, cpPusher, cpAborted, cpHolders, cpStackHolders, cpSamples,
                 cpOrderVars, besidesCp>>

NextCp ==
  \/ \E r \in Readers : \E shorts \in ReadBatches : ReaderRead(r, shorts)
  \/ \E r \in Readers : ReaderLock(r)
  \/ \E r \in Readers : ReaderProcess(r)
  \/ \E r \in Readers : ReaderDropped(r)
  \/ PusherTake
  \/ PusherPushed
  \/ PusherDropped
  \/ AbortPusher
  \/ AwaitPusher
  \/ AbortReaders
  \/ AwaitReaders
  \/ \E ok \in BOOLEAN : StopProbes(ok)
  \/ DropStackMap
  \/ UnwrapCollector
  \/ FinalPush

\* ------------------------------------------------------------------------
\* Admin API, POST /api/aggregate (aggregator/src/server/api.rs)
\* ------------------------------------------------------------------------
MaxFetchSecs == 6      \* longest time a store fetch takes, in seconds

API_STORE_TIMEOUT == 5

\* payload lists the store or the buffer hands over: none, one that
\* aggregates, one that does not
ApiPayloadLists ==
  { <<>>,
    <<Payload(TRUE, TRUE, <<CpuSampleEv(10, <<1>>, <<2>>), SyscallEv(8, 0, 5, -1)>>)>>,
    <<Payload(FALSE, FALSE, <<>>)>> }

\* what the store fetch does when left alone: Ok(payloads) or Err after secs
StoreFetches ==
  [ok : BOOLEAN, secs : 0..MaxFetchSecs, payloads : ApiPayloadLists]

\* tokio::time::timeout(5 s, fetch): the fetch is polled first, so its
\* result counts when it is there at the deadline
Timeout(fetch) ==
  IF fetch.secs <= API_STORE_TIMEOUT
    THEN [elapsed |-> FALSE, waited |-> fetch.secs, ok |-> fetch.ok,
          payloads |-> IF fetch.ok THEN fetch.payloads ELSE <<>>]
    ELSE [elapsed |-> TRUE, waited |-> API_STORE_TIMEOUT, ok |-> FALSE, payloads |-> <<>>]

\* the match on the timed fetch: `Ok(Ok(p)) if !p.is_empty() => p`, every
\* other arm falls back to the buffer
FromStoreAlways(t) == ~t.elapsed /\ t.ok

FromStore(t) == ~t.elapsed /\ t.ok /\ t.payloads # <<>>

NoApiCall ==
  [done |-> FALSE, store |-> FALSE, fetch |-> [ok |-> FALSE, secs |-> 0, payloads |-> <<>>],
   buffer |-> <<>>, source |-> "none", waited |-> 0, payloads |-> <<>>, status |-> 0,
   body |-> <<>>]

InitApi == apiCall = NoApiCall

ParkedApi == InitApi

\* handle_api, /api/aggregate: store is whether a batch store is configured,
\* fetch what its fetch_payload_strings does, from_buffer what
\* buffer.payload_strings(..).unwrap_or_default() gives
ApiAggregate(store, fetch, from_buffer, event_type) ==
  /\ LET t == Timeout(fetch)
         use_store == store /\ FromStore(t)
         payloads == IF use_store THEN t.payloads ELSE from_buffer
         out == AggregateBatches(EmptyResult, payloads)
     IN apiCall' = [done |-> TRUE, store |-> store, fetch |-> fetch, buffer |-> from_buffer,
                    source |-> IF use_store THEN "store" ELSE "buffer",
                    waited |-> IF store THEN t.waited ELSE 0,
                    payloads |-> payloads,
                    status |-> IF out.ok THEN 200 ELSE 500,
                    body |-> IF out.ok THEN <<FilterByType(out.value, event_type)>> ELSE <<>>]
  /\ UNCHANGED besidesApi

NextApi ==
  \E store \in BOOLEAN, fetch \in StoreFetches, from_buffer \in ApiPayloadLists,
     event_type \in {"", "lock"} : ApiAggregate(store, fetch, from_buffer, event_type)

ParkedLib == ParkedApi /\ ParkedWire /\ ParkedHist /\ ParkedDiff /\ ParkedRetry /\ ParkedCp /\ ParkedTs

ParkedCore ==
  ParkedBuffer /\ ParkedAgent /\ ParkedStore /\ ParkedAuth /\ ParkedAggregate /\ ParkedRpc /\ ParkedAlerts

\* ------------------------------------------------------------------------
\* Specifications
\* ------------------------------------------------------------------------
InitSpecBuffer == InitBuffer /\ ParkedAgent /\ ParkedStore /\ ParkedAuth /\ ParkedAggregate /\ ParkedRpc /\ ParkedAlerts /\ ParkedLib

SpecBuffer == InitSpecBuffer /\ [][NextBuffer]_vars

InitSpecAgent == InitAgent /\ ParkedBuffer /\ ParkedStore /\ ParkedAuth /\ ParkedAggregate /\ ParkedRpc /\ ParkedAlerts /\ ParkedLib

SpecAgent == InitSpecAgent /\ [][NextAgent]_vars

\* the same agent, with the answer to each Push of its own pusher on record
InitSpecAgentLogged == InitSpecAgent

SpecAgentLogged == InitSpecAgentLogged /\ [][NextAgentLogged]_vars

\* ProfileMode::All: the CPU profiler next to another profiler's pusher
InitSpecAgentAll ==
  /\ InitSpecAgent
  /\ mode = "cpu"
  /\ serverMode = "any"
  /\ initial_interval = PUSH_INTERVAL

NextAgentAll ==
  \/ NextAgent
  \/ OtherPusherRpc

SpecAgentAll == InitSpecAgentAll /\ [][NextAgentAll]_vars

InitSpecStore == InitStore /\ ParkedBuffer /\ ParkedAgent /\ ParkedAuth /\ ParkedAggregate /\ ParkedRpc /\ ParkedAlerts /\ ParkedLib

SpecStore == InitSpecStore /\ [][NextStore]_vars

\* the store late in a run, with the scheduling the runtime provides: the
\* background task's select! fires again (the interval ticks every 2 s, and a
\* ready notified() branch is picked among the ready branches sooner or
\* later), an insert comes back, and shutdown() goes on once the task has exited
InitSpecStoreFair == InitStoreBacklog /\ ParkedBuffer /\ ParkedAgent /\ ParkedAuth /\ ParkedAggregate /\ ParkedRpc /\ ParkedAlerts /\ ParkedLib

SpecStoreFair ==
  /\ InitSpecStoreFair
  /\ [][NextStore]_vars
  /\ WF_vars(\E reason \in {"timer", "threshold", "shutdown"} : BgWake(reason))
  /\ SF_vars(BgWake("threshold"))
  /\ WF_vars(\E ok \in BOOLEAN : BgInsertDone(ok))
  /\ WF_vars(ShutdownFlush)

InitSpecAuth == InitAuth /\ ParkedBuffer /\ ParkedAgent /\ ParkedStore /\ ParkedAggregate /\ ParkedRpc /\ ParkedAlerts /\ ParkedLib

SpecAuth == InitSpecAuth /\ [][NextAuth]_vars

InitSpecAggregate == InitAggregate /\ ParkedBuffer /\ ParkedAgent /\ ParkedStore /\ ParkedAuth /\ ParkedRpc /\ ParkedAlerts /\ ParkedLib

SpecAggregate == InitSpecAggregate /\ [][NextAggregate]_vars

InitSpecRpc ==
  InitRpc /\ ParkedBuffer /\ ParkedAgent /\ ParkedStore /\ ParkedAuth /\ ParkedAggregate /\ ParkedAlerts /\ ParkedLib

SpecRpc == InitSpecRpc /\ [][NextRpc]_vars

InitSpecQuery ==
  InitQuery /\ ParkedAgent /\ ParkedStore /\ ParkedAuth /\ ParkedAggregate /\ ParkedAlerts /\ ParkedLib

SpecQuery == InitSpecQuery /\ [][NextQuery]_vars

InitSpecAlerts ==
  FreshAlerts /\ ParkedBuffer /\ ParkedAgent /\ ParkedStore /\ ParkedAuth /\ ParkedAggregate /\ ParkedRpc /\ ParkedLib

SpecAlerts == InitSpecAlerts /\ [][NextAlerts]_vars

InitSpecAlertsAged ==
  AgedAlerts /\ ParkedBuffer /\ ParkedAgent /\ ParkedStore /\ ParkedAuth /\ ParkedAggregate /\ ParkedRpc /\ ParkedLib

SpecAlertsAged == InitSpecAlertsAged /\ [][NextAlertsAged]_vars

InitSpecApi == InitApi /\ ParkedCore /\ ParkedWire /\ ParkedHist /\ ParkedDiff /\ ParkedRetry /\ ParkedCp /\ ParkedTs

SpecApi == InitSpecApi /\ [][NextApi]_vars

InitSpecWire == InitWire /\ ParkedCore /\ ParkedApi /\ ParkedHist /\ ParkedDiff /\ ParkedRetry /\ ParkedCp /\ ParkedTs

SpecWire == InitSpecWire /\ [][NextWire]_vars

InitSpecHist == InitHist /\ ParkedCore /\ ParkedApi /\ ParkedWire /\ ParkedDiff /\ ParkedRetry /\ ParkedCp /\ ParkedTs

SpecHist == InitSpecHist /\ [][NextHist]_vars

InitSpecDiff == InitDiff /\ ParkedCore /\ ParkedApi /\ ParkedWire /\ ParkedHist /\ ParkedRetry /\ ParkedCp /\ ParkedTs

SpecDiff == InitSpecDiff /\ [][NextDiff]_vars

InitSpecRetry == InitRetry /\ ParkedCore /\ ParkedApi /\ ParkedWire /\ ParkedHist /\ ParkedDiff /\ ParkedCp /\ ParkedTs

SpecRetry == InitSpecRetry /\ [][NextRetry]_vars

InitSpecCp == InitCp /\ ParkedCore /\ ParkedApi /\ ParkedWire /\ ParkedHist /\ ParkedDiff /\ ParkedRetry /\ ParkedTs

SpecCp == InitSpecCp /\ [][NextCp]_vars

InitSpecTs == InitTs /\ ParkedCore /\ ParkedApi /\ ParkedWire /\ ParkedHist /\ ParkedDiff /\ ParkedRetry /\ ParkedCp

SpecTs == InitSpecTs /\ [][NextTs]_vars

\* ------------------------------------------------------------------------
\* Claims on the ring buffer and the Push response
\* ------------------------------------------------------------------------

\* C1: after N successful pushes to a buffer with max_batches = K the buffer
\* holds exactly min(N, K) batches, they are the last min(N, K) batches pushed,
\* in push order, and the earliest max(0, N - K) batches are gone (counted as
\* drops); hence len <= K.
C1_RingBufferBound ==
  /\ Len(batches) = Min(clock, max_batches)
  /\ Len(batches) <= max_batches
  /\ \A i \in 1..Len(batches) : batches[i].received_at_ns = clock - Len(batches) + i
  /\ buffer_drops = Max(0, clock - max_batches)

\* the buffer has overflowed by at least two batches
C1_Witness ==
  /\ max_batches >= 2
  /\ clock >= max_batches + 2
  /\ Len(batches) = max_batches
  /\ batches[1].received_at_ns = clock - max_batches + 1

\* C5 (as claimed): a successful Push response has backpressure = true exactly
\* when the utilization right after that push's own append is above 0.8.
C5_BackpressureAtOwnAppend ==
  (lastResp.ok /\ max_batches > 0) =>
    (lastResp.backpressure <=> lastResp.lenAppend * 10 > 8 * max_batches)

\* C5 (amended): a successful Push response has backpressure = true exactly
\* when the utilization read while the response is built is above 0.8 (0 for
\* max_batches = 0); a push whose own append already put the utilization above
\* 0.8 is always answered with backpressure = true.
C5_BackpressureAtResponse ==
  lastResp.ok =>
    /\ lastResp.backpressure <=>
         (max_batches > 0 /\ lastResp.lenRespond * 10 > 8 * max_batches)
    /\ (max_batches > 0 /\ lastResp.lenAppend * 10 > 8 * max_batches)
         => lastResp.backpressure

\* the answered push is the one that took the utilization across 0.8
C5_Witness ==
  /\ lastResp.ok
  /\ lastResp.backpressure
  /\ max_batches > 0
  /\ lastResp.lenAppend * 10 > 8 * max_batches
  /\ (lastResp.lenAppend - 1) * 10 <= 8 * max_batches
  /\ lastResp.lenRespond = lastResp.lenAppend

\* ------------------------------------------------------------------------
\* Claims on the agent
\* ------------------------------------------------------------------------

\* C2: at shutdown every event added to the collector is visible to the final
\* push, unless an earlier streaming push already delivered it.
C2_FinalFlushSeesAll ==
  phase \in {"final", "done"} =>
    \A e \in Range(samples) : e \in Range(finalEvents) \/ e \in delivered

\* C4: against a server that rejects every payload of two or more events as
\* too large and accepts single-event payloads, a push of n events returns Ok
\* in its first attempt after the server has accepted exactly n single-event
\* payloads, one per event, in event order.
C4_SplitDeliversSingles ==
  (serverMode = "split" /\ job.result.returned) =>
    /\ job.result.ok
    /\ job.outcomes = <<"ok">>
    /\ job.accepted = [i \in 1..Len(job.events) |-> <<job.events[i]>>]

\* the spec scenario: a batch of four events has been pushed
C4_Witness ==
  /\ serverMode = "split"
  /\ job.result.returned
  /\ job.result.ok
  /\ Len(job.events) = 4
  /\ Len(job.accepted) = 4

\* C8: push_cursor <= len always; a take_pending call returns exactly the
\* events from the old cursor to the end and advances the cursor by the number
\* of events returned, to the length.
C8_CursorInvariant ==
  /\ push_cursor <= Len(samples)
  /\ lastTake.len <= Len(samples)
  /\ lastTake.returned = SubSeq(samples, lastTake.old + 1, lastTake.len)
  /\ lastTake.new = lastTake.old + Len(lastTake.returned)
  /\ lastTake.new = lastTake.len
  /\ push_cursor = lastTake.new

\* a take that started from an advanced cursor and returned several events
C8_Witness ==
  /\ lastTake.old > 0
  /\ Len(lastTake.returned) >= 2
  /\ push_cursor = lastTake.old + Len(lastTake.returned)

\* the backoff before attempt i + 1
Backoff(i) == Min(500 * 2 ^ (i - 1), 30000)

FailedAttempts(j) == Cardinality({i \in 1..Len(j.outcomes) : j.outcomes[i] = "err"})

\* C10: a push is attempted at most 3 times and stops at the first success;
\* failed attempts are separated by a backoff that starts at 500 ms and
\* doubles, clamped at 30 s; the final failure is returned to the streaming
\* loop, which keeps running: the pusher task ends only when shutdown aborts it.
C10_RetryPolicy ==
  /\ job.attempt <= 3
  /\ Len(job.outcomes) <= 3
  /\ \A i \in 1..(Len(job.outcomes) - 1) : job.outcomes[i] = "err"
  /\ Len(job.sleeps) = Min(FailedAttempts(job), 2)
  /\ \A i \in 1..Len(job.sleeps) : job.sleeps[i] = Backoff(i)
  /\ job.pc # "idle" => job.delay = Backoff(Len(job.sleeps) + 1)
  /\ job.pc \in {"call", "loop"} => job.attempt = Len(job.sleeps) + 1
  /\ job.pc = "backoff" => job.attempt = Len(job.sleeps)
  /\ job.result.returned =>
       IF job.result.ok THEN job.outcomes[Len(job.outcomes)] = "ok"
       ELSE job.outcomes = <<"err", "err", "err">>
  /\ ppc # "exited"
  /\ ppc = "aborted" => phase # "running"

\* a streaming push failed three times; the pusher is back in its loop
C10_Witness ==
  /\ phase = "running"
  /\ ppc = "sleep"
  /\ job.result.returned
  /\ ~job.result.ok
  /\ job.sleeps = <<500, 1000>>
  /\ job.outcomes = <<"err", "err", "err">>

\* ------------------------------------------------------------------------
\* Claims on the store
\* ------------------------------------------------------------------------
InFlight ==
  (IF bgpc = "insert" THEN Range(bgRows) ELSE {})
    \cup (IF qpc = "insert" THEN Range(qRows) ELSE {})
    \cup (IF sdpc = "insert" THEN Range(sdRows) ELSE {})

\* C3: whatever flushes and failed inserts happen, every row accepted by
\* write_batch is still pending (or part of an insert attempt in progress) or
\* has been inserted: no row is dropped because an insert failed.
C3_NoRowLost ==
  \A r \in 1..nextRow : r \in Range(pending) \/ r \in InFlight \/ r \in Inserted

\* C9: every row whose write_batch completed before a query began has been
\* inserted when the query's SELECT runs, and is visible to it.
C9_QuerySeesPriorWrites ==
  lastQuery.done => \A r \in 1..lastQuery.start : r \in lastQuery.seen

\* ------------------------------------------------------------------------
\* Claims on the bearer-token check
\* ------------------------------------------------------------------------

\* C6: with a token configured a request passes only if its authorization
\* metadata is exactly "Bearer <token>"; a missing header, a header without
\* the "Bearer " prefix and a mismatched token are rejected with
\* Unauthenticated; with no token configured every request passes.
C6_AuthGate ==
  authImpl # "none" =>
    /\ authResult \in {"Ok", "Unauthenticated"}
    /\ authResult = "Ok" <=>
         (~auth_token.some \/ authHeader = SomeStr(Bearer \o auth_token.value))

\* a request with the exact header has passed a check_auth with a token set
C6_Witness ==
  /\ authImpl = "check_auth"
  /\ auth_token.some
  /\ Len(auth_token.value) = 2
  /\ authHeader = SomeStr(Bearer \o auth_token.value)
  /\ authResult = "Ok"

\* ------------------------------------------------------------------------
\* Claims on the aggregation engine
\* ------------------------------------------------------------------------
RECURSIVE ValidOnly(_)
ValidOnly(payloads) ==
  IF payloads = <<>> THEN <<>>
  ELSE (IF Head(payloads).b64 /\ Head(payloads).wire THEN <<Head(payloads)>> ELSE <<>>)
       \o ValidOnly(Tail(payloads))

\* C7: aggregating a list in which some payloads fail base64 or wire
\* decoding does not fail, and the profiles and total_events it returns are
\* those of the list with the undecodable payloads removed.
C7_SkipAndCount ==
  aggPc # "run" =>
    /\ aggPc # "err"
    /\ aggAcc = AggregateBatches(EmptyResult, ValidOnly(aggInput)).value

\* ------------------------------------------------------------------------
\* Claims on the adaptive push interval and the push sequence numbers
\* ------------------------------------------------------------------------

\* C11: after a streaming push the pusher sets its interval from the server's
\* answer: backpressure = true gives min(2 * interval, 30 s), backpressure =
\* false gives the configured initial interval.
C11_IntervalFollowsBackpressure ==
  lastAdjust.done =>
    /\ (lastAdjust.result.ok /\ lastAdjust.result.bp = "true")
         => lastAdjust.after = Min(2 * lastAdjust.before, 30000)
    /\ (lastAdjust.result.ok /\ lastAdjust.result.bp = "false")
         => lastAdjust.after = initial_interval
    /\ ppc = "sleep" => push_interval = lastAdjust.after

\* consecutive backpressure answers have taken the interval from 5 s to the
\* 30 s ceiling
C11_Witness ==
  /\ initial_interval = 5000
  /\ lastAdjust.done
  /\ lastAdjust.result.bp = "true"
  /\ lastAdjust.before = 20000
  /\ lastAdjust.after = 30000

\* C12: every Push carries a sequence number strictly greater than that of
\* every Push its pusher sent before, and no two Pushes of the process carry
\* the same number, across concurrent pushers, split chunks and retries.
C12_SequenceUnique ==
  /\ lastSent.pusher # "none" => (lastSent.seq > lastSent.prev /\ ~lastSent.repeated)
  /\ \A p \in Pushers : lastSeq[p] # 0 => lastSeq[p] \in sentSeqs
  /\ Cardinality(sentSeqs) = PUSH_SEQUENCE - 1

\* the two pushers have interleaved and the modelled one has retried
C12_Witness ==
  /\ lastSent.pusher = "own"
  /\ lastSent.prev > 0
  /\ lastSeq["other"] > lastSent.prev
  /\ lastSeq["other"] < lastSent.seq
  /\ job.attempt >= 2

IndexPermutations(n) == {f \in [1..n -> 1..n] : \A i, j \in 1..n : i # j => f[i] # f[j]}

Permuted(L, f) == [i \in 1..Len(L) |-> L[f[i]]]

\* C13: aggregation is order-independent: every permutation of the payload
\* list aggregates to the same profiles and total_events (and fails when the
\* list fails).
C13_OrderIndependent ==
  aggPc # "run" =>
    \A f \in IndexPermutations(Len(aggInput)) :
      LET r == AggregateBatches(EmptyResult, Permuted(aggInput, f))
      IN /\ r.ok <=> aggPc = "ok"
         /\ r.ok => r.value = aggAcc

\* three different payloads sharing a stack, a lock and a syscall have been
\* aggregated
C13_Witness ==
  /\ aggPc = "ok"
  /\ Len(aggInput) = 3
  /\ \A i \in 1..3 : aggInput[i].events # <<>>
  /\ Cardinality(Range(aggInput)) = 3
  /\ aggAcc.total_events = 8
  /\ aggAcc.cpu[1].total_samples = 2
  /\ aggAcc.lock[1].total_events = 2
  /\ aggAcc.syscall[1].total_events = 2

\* ------------------------------------------------------------------------
\* Claims on the Push handler's treatment of undecodable payloads
\* ------------------------------------------------------------------------

\* C14: a Push whose payload cannot be decoded is still accepted: the batch is
\* appended to the ring buffer with event_count = 0 and the payload bytes as
\* sent, the same goes to the store when one is configured, and the response
\* has ok = true.
C14_UndecodableAccepted ==
  /\ (lastAppend.request # <<>> /\ ~lastAppend.request[1].decodes) =>
       /\ lastAppend.batch[1].event_count = 0
       /\ lastAppend.batch[1].payload = lastAppend.request[1]
       /\ max_batches > 0 => batches[Len(batches)] = lastAppend.batch[1]
  /\ (lastResp.request # <<>> /\ ~lastResp.request[1].decodes) =>
       /\ lastResp.ok
       /\ lastResp.batch[1].event_count = 0
       /\ lastResp.batch[1].payload = lastResp.request[1]
       /\ Len(lastResp.row) = (IF batch_store THEN 1 ELSE 0)
       /\ batch_store =>
            /\ lastResp.row[1].event_count = 0
            /\ Base64Decode(lastResp.row[1].payload) = lastResp.request[1]
            /\ lastResp.row[1].sequence = lastResp.batch[1].sequence

\* an undecodable payload has been pushed with a store configured and answered
C14_Witness ==
  /\ batch_store
  /\ max_batches > 0
  /\ lastResp.ok
  /\ lastResp.request # <<>>
  /\ ~lastResp.request[1].decodes
  /\ lastResp.row # <<>>
  /\ \E i \in 1..Len(batches) : batches[i] = lastResp.batch[1]

\* ------------------------------------------------------------------------
\* Claims on the gRPC surface
\* ------------------------------------------------------------------------

\* C15: whatever fails below the surface (buffer, store fetch, aggregation),
\* an authenticated call is answered with a response message whose error
\* string tells the failure, never with an error status.
C15_NoErrorStatus ==
  rpcReply.kind # "none" =>
    /\ rpcReply.kind = "response"
    /\ rpcCall.fault # "none" => rpcReply.error # ""

\* ------------------------------------------------------------------------
\* Claims on the alert store
\* ------------------------------------------------------------------------

\* what it means for a rule's operator to hold between value and threshold;
\* equality is equality up to f64::EPSILON
Holds(op, value, threshold) ==
  \/ op = "Gt" /\ value > threshold
  \/ op = "Gte" /\ ~(value < threshold)
  \/ op = "Lt" /\ value < threshold
  \/ op = "Lte" /\ ~(value > threshold)
  \/ op = "Eq" /\ value - threshold \in {-1, 0, 1}

Matching(rs, snapshot) ==
  {i \in 1..Len(rs) : rs[i].enabled
                       /\ Holds(rs[i].operator, SnapshotGet(snapshot, rs[i].metric), rs[i].threshold)}

\* C17: evaluate returns exactly one event for each rule that is enabled and
\* whose operator holds between the snapshot's value of its metric and its
\* threshold, none for any other rule (a disabled one in particular), and
\* appends the same events to the history.
C17_EvaluateFiresMatching ==
  lastEval.done =>
    LET m == Matching(rules, lastEval.snapshot)
        fired == lastEval.fired
    IN /\ Len(fired) = Cardinality(m)
       /\ \A i \in m : Cardinality({k \in 1..Len(fired) : fired[k].rule_id = rules[i].id}) = 1
       /\ \A k \in 1..Len(fired) :
            \E i \in m : /\ fired[k].rule_id = rules[i].id
                         /\ fired[k].value = SnapshotGet(lastEval.snapshot, rules[i].metric)
                         /\ fired[k].threshold = rules[i].threshold
       /\ Len(firedLog) >= Len(fired)
       /\ SubSeq(firedLog, Len(firedLog) - Len(fired) + 1, Len(firedLog)) = fired
       /\ Len(fired) <= MAX_HISTORY =>
            SubSeq(history, Len(history) - Len(fired) + 1, Len(history)) = fired

\* a rule fired, was toggled off, and the same snapshot was evaluated again:
\* it did not fire, while another rule did
C17_Witness ==
  /\ lastEval.done
  /\ lastEval.fired # <<>>
  /\ \E i \in 1..Len(rules) :
       /\ ~rules[i].enabled
       /\ Holds(rules[i].operator,
                SnapshotGet(lastEval.snapshot, rules[i].metric),
                rules[i].threshold)
       /\ \E k \in 1..Len(history) :
            /\ history[k].rule_id = rules[i].id
            /\ history[k].fired_at < now
            /\ history[k].value = SnapshotGet(lastEval.snapshot, rules[i].metric)

\* C18: the history holds at most 500 events, and they are the most recently
\* fired ones in firing order.
C18_HistoryBounded ==
  /\ Len(history) <= 500
  /\ Len(history) = Min(500, Len(firedLog))
  /\ history = SubSeq(firedLog, Len(firedLog) - Len(history) + 1, Len(firedLog))

\* the history is full and its oldest events have been dropped
C18_Witness ==
  /\ Len(history) = 500
  /\ Len(firedLog) >= 502
  /\ history[1] = firedLog[Len(firedLog) - 499]
  /\ lastEval.done
  /\ Len(lastEval.fired) = 2

\* C19: ids are alert-<n> with n = 1, 2, ... over successive create_rule
\* calls; none is issued twice, also after deletions, so the rules in the
\* store have pairwise distinct ids and a history entry's rule_id names at
\* most one rule ever created.
C19_RuleIdsUnique ==
  /\ \A i \in 1..Len(issuedIds) : issuedIds[i] = <<"alert-", i>>
  /\ \A i, j \in 1..Len(issuedIds) : i # j => issuedIds[i] # issuedIds[j]
  /\ \A i, j \in 1..Len(rules) : i # j => rules[i].id # rules[j].id
  /\ \A i \in 1..Len(rules) : rules[i].id \in Range(issuedIds)
  /\ \A k \in 1..Len(history) :
       Cardinality({i \in 1..Len(issuedIds) : issuedIds[i] = history[k].rule_id}) = 1

\* a rule fired and was deleted, another was created after it and fired
C19_Witness ==
  /\ Len(issuedIds) = 2
  /\ Len(rules) = 1
  /\ rules[1].id = <<"alert-", 2>>
  /\ \E k \in 1..Len(history) : history[k].rule_id = <<"alert-", 1>>
  /\ \E k \in 1..Len(history) : history[k].rule_id = <<"alert-", 2>>

\* ------------------------------------------------------------------------
\* Claims on graceful shutdown
\* ------------------------------------------------------------------------

\* C16: once shutdown has begun no Push reaches the store; shutdown cancels
\* the background flush task, goes on to its own flush only after the task
\* has flushed for the last time and exited, and when it returns Ok the
\* pending vector is empty, the task has terminated, and no insert is in
\* flight or can be issued any more.
C16_ShutdownDrains ==
  /\ sdpc # "running" => cancelled
  /\ sdpc \in {"insert", "done", "failed"} => bgpc = "exited" /\ bgRows = <<>>
  /\ sdpc = "done" =>
       /\ pending = <<>>
       /\ bgpc = "exited"
       /\ qpc = "idle"
       /\ Range(sdRows) \subseteq Inserted
       /\ ~ENABLED NextStore

\* the task's shutdown flush failed and re-queued its rows, and the final
\* flush of shutdown then inserted them
C16_Witness ==
  /\ sdpc = "done"
  /\ bgLabel = "shutdown"
  /\ sdRows # <<>>
  /\ Len(insertLog) >= 2

\* ------------------------------------------------------------------------
\* Claims on the ring-buffer query
\* ------------------------------------------------------------------------

\* the batches of the buffer that a filter lets through, oldest first
MatchingBatches(bs, filter) ==
  SelectSeq(bs, LAMBDA b : filter = <<>> \/ b.agent_id = filter[1])

\* C20: a query of the ring buffer with filter a and limit l returns at most
\* min(l, 1000) batches, all of agent a when a filter is given, and they are
\* the newest matching batches of the buffer, oldest of them first.  (l is
\* the limit InMemoryBuffer::query is called with.)
C20_QueryNewestMatching ==
  lastBufQuery.done =>
    LET out == lastBufQuery.out
        a == lastBufQuery.agent_id
        l == lastBufQuery.limit
        m == MatchingBatches(batches, a)
        n == Min(Min(l, 1000), Len(m))
    IN /\ Len(out) <= Min(l, 1000)
       /\ a # <<>> => \A i \in 1..Len(out) : out[i][1] = a[1]
       /\ Len(out) = n
       /\ \A i \in 1..n :
            LET b == m[Len(m) - n + i]
            IN out[i] = <<b.agent_id, b.sequence, b.event_count, b.received_at_ns>>

\* more than a thousand batches of the agent asked for, with others in
\* between: the answer stops at the cap and leaves the oldest out
C20_Witness ==
  /\ lastBufQuery.done
  /\ lastBufQuery.agent_id = <<"a1">>
  /\ lastBufQuery.limit = 1001
  /\ Len(lastBufQuery.out) = 1000
  /\ Len(MatchingBatches(batches, <<"a1">>)) = 1001
  /\ \E i \in 1..Len(batches) : batches[i].agent_id = "a2"
  /\ lastBufQuery.out[1000][2] = 1003

\* ------------------------------------------------------------------------
\* Claims on the admin API
\* ------------------------------------------------------------------------

\* C21: with storage configured, /api/aggregate aggregates the store's
\* payloads exactly when the store fetch returns a non-empty list within 5
\* seconds; on a timeout, a store error or an empty list it aggregates the
\* buffer's payloads; and it never waits on the store for more than 5 seconds.
C21_StoreFirstThenBuffer ==
  (apiCall.done /\ apiCall.store) =>
    LET f == apiCall.fetch
        good == f.ok /\ f.secs <= 5 /\ f.payloads # <<>>
    IN /\ apiCall.source = "store" <=> good
       /\ good => apiCall.payloads = f.payloads
       /\ ~good => apiCall.source = "buffer" /\ apiCall.payloads = apiCall.buffer
       /\ apiCall.waited <= 5

\* the store answered in time but had nothing: the buffer's payloads were
\* aggregated
C21_Witness ==
  /\ apiCall.done
  /\ apiCall.store
  /\ apiCall.fetch.ok
  /\ apiCall.fetch.secs = 5
  /\ apiCall.fetch.payloads = <<>>
  /\ apiCall.source = "buffer"
  /\ apiCall.payloads # <<>>
  /\ apiCall.status = 200


\* ------------------------------------------------------------------------
\* Wire codec claims
\* ------------------------------------------------------------------------
\* the symbol arrays of a decoded event: two on a CpuSample, one on a
\* LockEvent, none on the others
SymbolArrays(e) ==
  CASE e.tag = 0 -> <<e.fields[8], e.fields[9]>>
    [] e.tag = 1 -> <<e.fields[9]>>
    [] OTHER -> <<>>

\* C22: a Message built by Message::new and encoded by to_bytes decodes
\* by from_bytes to an equal Message: the same version, sequence and events,
\* symbol arrays included.
C22_RoundTrip ==
  (wirePc = "decoded" /\ wireIn.kind = "message")
    => (wireOut.ok /\ wireOut.value = wireIn.message)

\* a two-event message whose first event carries a resolved and an
\* unresolved symbol has gone through to_bytes and from_bytes
C22_Witness ==
  /\ wirePc = "decoded"
  /\ wireIn.kind = "message"
  /\ Len(wireIn.message.events) = 2
  /\ wireIn.message.events[1].tag = 0
  /\ Len(wireIn.message.events[1].fields[8]) = 2
  /\ wireOut.ok
  /\ wireBytes = ToBytes(wireIn.message)

\* C23: every payload in the legacy format (a LegacyMessage encoded
\* fixed-width) decodes successfully, and to a Message whose events all have
\* empty symbol arrays.
C23_LegacyDecodesWithoutSymbols ==
  (wirePc = "decoded" /\ wireIn.kind = "legacy")
    => /\ wireOut.ok
       /\ \A i \in 1..Len(wireOut.value.events) :
            \A j \in 1..Len(SymbolArrays(wireOut.value.events[i])) :
              SymbolArrays(wireOut.value.events[i])[j] = <<>>

\* C24: when an attempt decodes the payload but its version is not
\* PROTOCOL_VERSION, from_bytes fails with an error that says so.
C24_VersionMismatchError ==
  (/\ wirePc = "decoded"
   /\ \E k \in 1..4 : Attempt(k, wireBytes).ok /\ ~VersionOk(Attempt(k, wireBytes).value))
    => (~wireOut.ok /\ wireOut.error = "DecodeVersionMismatch")

\* C25: from_bytes of a zero-length payload is not an error; it returns a
\* Message with no events.
C25_EmptyPayloadDecodes ==
  (wirePc = "decoded" /\ wireBytes = <<>>)
    => (wireOut.ok /\ wireOut.value.events = <<>>)


\* ------------------------------------------------------------------------
\* Histogram claims
\* ------------------------------------------------------------------------
\* floor(log2(d)) for d >= 1, by its definition
FloorLog2(d) == CHOOSE k \in 0..30 : 2^k <= d /\ d \div 2 < 2^k

ExpectedBucket(d) == IF d <= 1 THEN 0 ELSE Min(29, FloorLog2(d))

\* the histogram of a syscall id; all zero before its first syscall
HistogramOf(p, id) ==
  IF id \in DOMAIN p.syscalls THEN p.syscalls[id].latency_histogram
  ELSE [b \in 0..29 |-> 0]

\* C26: recording a syscall of duration d adds one to exactly one of the
\* 30 buckets of its id, bucket min(29, floor(log2 d)) for d > 1 and bucket
\* 0 for d <= 1, and leaves every other bucket as it was.
C26_OneBucketPerSyscall ==
  [][\A c \in SyscallCalls :
       (c \notin sysRecorded /\ sysRecorded' = sysRecorded \cup {c})
         => /\ DOMAIN HistogramOf(sysProfile', c.id) = 0..29
            /\ ExpectedBucket(c.duration_ns) \in 0..29
            /\ \A b \in 0..29 :
                 HistogramOf(sysProfile', c.id)[b] =
                   HistogramOf(sysProfile, c.id)[b]
                     + (IF b = ExpectedBucket(c.duration_ns) THEN 1 ELSE 0)]_vars

\* durations 0, 1, 3 and 2^30 have been recorded for one syscall id: two
\* in bucket 0, one in bucket 1 and one in the last bucket
C26_Witness ==
  /\ {c.duration_ns : c \in {r \in sysRecorded : r.id = 1}} = {0, 1, 3, 1073741824}
  /\ sysProfile.syscalls[1].latency_histogram[0] = 2
  /\ sysProfile.syscalls[1].latency_histogram[1] = 1
  /\ sysProfile.syscalls[1].latency_histogram[29] = 1


\* ------------------------------------------------------------------------
\* Diff claims
\* ------------------------------------------------------------------------
\* the entries of a diff, the key of an entry and its deltas, by kind
DiffEntries(kind, d) ==
  CASE kind = "cpu" -> d.stacks
    [] kind = "syscall" -> d.syscalls
    [] kind = "lock" -> d.contentions

DiffKey(kind, e) ==
  CASE kind = "cpu" -> e.stack
    [] kind = "syscall" -> e.syscall_id
    [] kind = "lock" -> <<e.lock_addr, e.stack>>

ProfileKeys(kind, p) ==
  CASE kind = "cpu" -> DOMAIN p.samples
    [] kind = "syscall" -> DOMAIN p.syscalls
    [] kind = "lock" -> DOMAIN p.contentions

ProfileTotal(kind, p) == IF kind = "cpu" THEN p.total_samples ELSE p.total_events

Negated(kind, e, f) ==
  CASE kind = "cpu" -> e.delta = -f.delta
    [] kind = "syscall" -> /\ e.delta_count = -f.delta_count
                           /\ e.delta_avg_ns = <<-f.delta_avg_ns[1], f.delta_avg_ns[2]>>
    [] kind = "lock" -> e.delta_wait_ns = -f.delta_wait_ns

\* C27: diff(a, b) and diff(b, a) each hold one entry per key of the union
\* of the keys of a and b, the deltas of a key in the two are negations of
\* each other, and baseline_total and comparison_total are swapped.
C27_DiffAntisymmetric ==
  diffPc = "done" =>
    LET k == diffIn.kind
        fwd == DiffEntries(k, diffFwd)
        rev == DiffEntries(k, diffRev)
        keys == ProfileKeys(k, diffIn.a) \cup ProfileKeys(k, diffIn.b)
    IN /\ {DiffKey(k, fwd[i]) : i \in 1..Len(fwd)} = keys
       /\ {DiffKey(k, rev[i]) : i \in 1..Len(rev)} = keys
       /\ Len(fwd) = Cardinality(keys)
       /\ Len(rev) = Cardinality(keys)
       /\ \A i \in 1..Len(fwd), j \in 1..Len(rev) :
            DiffKey(k, fwd[i]) = DiffKey(k, rev[j]) => Negated(k, fwd[i], rev[j])
       /\ diffFwd.baseline_total = ProfileTotal(k, diffIn.a)
       /\ diffFwd.comparison_total = ProfileTotal(k, diffIn.b)
       /\ diffRev.baseline_total = diffFwd.comparison_total
       /\ diffRev.comparison_total = diffFwd.baseline_total

\* two syscall profiles with one id in common and one only in b have been
\* diffed both ways, and the common id has a non-zero delta
C27_Witness ==
  /\ diffPc = "done"
  /\ diffIn.kind = "syscall"
  /\ DOMAIN diffIn.a.syscalls = {1}
  /\ DOMAIN diffIn.b.syscalls = {1, 2}
  /\ Len(diffFwd.syscalls) = 2
  /\ \E i \in 1..2 : diffFwd.syscalls[i].syscall_id = 1 /\ diffFwd.syscalls[i].delta_count = -1


\* ------------------------------------------------------------------------
\* Retry claims
\* ------------------------------------------------------------------------
\* the calls that return Ok among the first max_attempts
OkCalls == {k \in 1..retryIn.max_attempts : retryIn.outcomes[k] = "ok"}

\* the number of calls the contract allows: up to the first Ok, else all
ExpectedCalls ==
  IF OkCalls = {} THEN retryIn.max_attempts
  ELSE CHOOSE k \in OkCalls : \A j \in OkCalls : k <= j

\* C28: for every max_attempts and every outcome sequence, when
\* retry_with_backoff is over it has called the operation up to its first
\* Ok or max_attempts times, it has returned that Ok or else the last Err,
\* and it has slept initial_delay, 2x, 4x, ... capped at 30 s between the
\* calls and not after the last.
C28_RetryContract ==
  retryPc \in {"returned", "panicked"} =>
    /\ retryPc = "returned"
    /\ retryCalls = ExpectedCalls
    /\ retryResult = [ok |-> OkCalls # {}, value |-> ExpectedCalls]
    /\ Len(retrySleeps) = ExpectedCalls - 1
    /\ \A i \in 1..Len(retrySleeps) :
         retrySleeps[i] = Min(retryIn.initial_delay * 2^(i - 1), DELAY_CAP)


\* ------------------------------------------------------------------------
\* Store re-queue claims
\* ------------------------------------------------------------------------
\* the background task's bulk insert has just failed
BgInsertFailed == bgpc = "insert" /\ bgpc' # "insert" /\ insertLog' = insertLog

\* the background task has just woken and found rows
BgSwappedOut == bgpc = "wait" /\ bgpc' = "insert"

ShutdownOrder ==
  <<"abort_readers", "await_readers", "stop_probes", "drop_stack_map", "unwrap_collector",
    "final_push">>

\* the steps of ShutdownOrder in the log
OrderedSteps == SelectSeq(cpLog, LAMBDA step : step \in Range(ShutdownOrder))

\* C30: the shutdown steps are taken in the order abort readers, await
\* them, stop probes, drop the stack_map handle, unwrap the collector, final
\* drain and push; when the collector is unwrapped no reader and no pusher
\* holds it, so the unwrap never fails; and no sample is appended once the
\* final drain has run.
C30_ShutdownOrder ==
  /\ Len(OrderedSteps) <= Len(ShutdownOrder)
  /\ OrderedSteps = SubSeq(ShutdownOrder, 1, Len(OrderedSteps))
  /\ cpPhase # "unwrap_failed"
  /\ cpPhase \in {"stack_map_dropped", "unwrapped", "build_profile"} =>
       /\ cpHolders = {"main"}
       /\ \A r \in Readers : cpReaders[r] = "gone"
       /\ cpPusher \in {"gone", "none"}
       /\ "main" \notin cpStackHolders
  /\ cpDrain.done => cpSamples = cpDrain.len

\* a run with a pusher went through the whole shutdown, a sample arrived
\* after the pusher's last take, and the final drain took it
C30_Witness ==
  /\ cpPhase = "build_profile"
  /\ cpConfig.aggregator_url
  /\ cpPusher = "gone"
  /\ cpDrain.done
  /\ cpDrain.taken = 1
  /\ cpSamples = 2
  /\ Len(cpLog) = 8

\* no element occurs twice in the sequence
NoRepeats(s) == \A i, k \in 1..Len(s) : s[i] = s[k] => i = k

\* C31: under every interleaving of reader appends, streaming takes and the
\* final take, the slices the take_pending calls returned, concatenated in call
\* order, are the collector's events up to the cursor, each once; after the
\* final take they are the collector's whole event sequence.
C31_TakesPartitionEvents ==
  /\ NoRepeats(lastTake.all)
  /\ Len(lastTake.all) = push_cursor
  /\ Len(lastTake.all) <= Len(samples)
  /\ \A i \in 1..Len(lastTake.all) : lastTake.all[i] = samples[i]
  /\ phase \in {"final", "done"} => lastTake.all = samples

\* the final take returned the events that arrived after a streaming take
\* which had itself returned events
C31_Witness ==
  /\ mode = "cpu"
  /\ phase = "final"
  /\ lastTake.old > 0
  /\ Len(lastTake.returned) >= 2
  /\ lastTake.all = samples

\* the step is push_to_aggregator_with_retry returning Err to its caller
PushGaveUp == /\ job.owner # "none"
              /\ job'.owner = "none"
              /\ job'.result.returned
              /\ ~job'.result.ok

\* the step is the abort of the streaming pusher while it pushes a batch
PushAborted == /\ phase = "running"
               /\ phase' = "pusher_aborted"
               /\ job.owner = "stream"

\* the step hands a newly taken batch to a push
NewBatch == /\ job'.owner \in {"stream", "final"}
            /\ job'.pc = "call"
            /\ job'.attempt = 1
            /\ job.owner # job'.owner

C33_AcceptedAtMostOnce == NoRepeats(Concat(job.accepted))

\* the step is one turn of push_to_aggregator's work loop: a Push RPC of the
\* profiler's own pusher and what the loop does with the answer
LoopTurn == /\ PUSH_SEQUENCE' # PUSH_SEQUENCE
            /\ lastSent'.pusher = "own"

\* the turns the work loop can still take at most: a chunk of n events costs
\* at most 2n - 1 Push RPCs
TurnsLeft(queue) ==
  LET RECURSIVE Sum(_)
      Sum(i) == IF i > Len(queue) THEN 0 ELSE (2 * Len(queue[i]) - 1) + Sum(i + 1)
  IN Sum(1)

\* C37: the split work loop terminates: every chunk in the queue holds an
\* event, and each turn that stays in the loop lowers the bound on the turns
\* left, which is at most 2 * len - 1 at the start. A chunk is split only when
\* it was rejected as too large and holds more than one event; a single-event
\* chunk rejected as too large ends the push with the error instead.
C37_SplitLoopTerminates ==
  [][ /\ \A i \in 1..Len(job'.queue) : job'.queue[i] # <<>>
      /\ job'.queue # <<>> => TurnsLeft(job'.queue) <= 2 * Len(job'.events) - 1
      /\ LoopTurn =>
           LET chunk == Head(job.queue)
               outcome == rpcLog'[1]
           IN /\ job'.pc = "loop" => TurnsLeft(job'.queue) < TurnsLeft(job.queue)
              /\ Len(job'.queue) > Len(job.queue) => /\ outcome = "too_large"
                                                     /\ Len(chunk) > 1
              /\ (outcome = "too_large" /\ Len(chunk) = 1) =>
                   /\ job'.pc # "loop"
                   /\ job'.queue = <<>>
                   /\ job'.outcomes = Append(job.outcomes, "err")
                   /\ job'.accepted = job.accepted
    ]_vars

\* a batch of several events was split, a chunk of it was accepted, and a
\* single-event chunk was then rejected as too large: the attempt has failed
C37_Witness ==
  /\ Len(job.events) >= 3
  /\ job.pc = "backoff"
  /\ job.attempt = 1
  /\ job.accepted # <<>>
  /\ rpcLog = <<"too_large">>

\* C38: a Push is only issued on a cached connection; when it fails with a
\* connection error the cached connection is dropped, after any other answer
\* it is kept; and a connection comes into being only at the start of an
\* attempt, before that attempt sends anything.
C38_ConnectionDropAndReconnect ==
  [][ /\ LoopTurn =>
           /\ client = "conn"
           /\ rpcLog' = <<"connection">> => client' = "none"
           /\ rpcLog' # <<"connection">> => client' = "conn"
      /\ (client = "none" /\ client' = "conn") => /\ job.pc = "call"
                                                  /\ job'.pc = "loop"
                                                  /\ rpcLog' = rpcLog
                                                  /\ PUSH_SEQUENCE' = PUSH_SEQUENCE
    ]_vars

\* the first attempt's Push failed with a connection error, and the second
\* attempt has connected again and not sent yet
C38_Witness ==
  /\ job.pc = "loop"
  /\ job.attempt = 2
  /\ rpcLog = <<"connection">>
  /\ client = "conn"

\* the positions, in its ring buffer, of the samples the collector holds from
\* one CPU, in the collector's order
FromCpu(r) ==
  LET RECURSIVE Pick(_)
      Pick(i) == IF i > Len(cpEvents) THEN <<>>
                 ELSE IF cpEvents[i][1] = r THEN <<cpEvents[i][2]>> \o Pick(i + 1)
                 ELSE Pick(i + 1)
  IN Pick(1)

\* C39: the collector's sequence keeps each CPU's ring buffer order: the
\* samples it holds from one CPU are records that reader has read, each once,
\* in ascending ring buffer position. (Between samples of different CPUs no
\* order is required.)
C39_PerCpuOrder ==
  /\ cpSamples = Len(cpEvents)
  /\ \A r \in Readers :
       LET mine == FromCpu(r)
       IN /\ \A i \in 1..Len(mine) : mine[i] \in 1..cpRing[r]
          /\ \A i, k \in 1..Len(mine) : i < k => mine[i] < mine[k]

\* cpu0's two samples are in order with a sample of cpu1 between them
C39_Witness ==
  cpEvents = <<<<"cpu0", 1>>, <<"cpu1", 1>>, <<"cpu0", 2>>>>

\* C34: the ring buffer's length never decreases (a push appends one batch
\* and drops the oldest only while the buffer is over capacity), so once a
\* successful Push response has reported backpressure, every later successful
\* Push response reports it too.
C34_BackpressureLatches ==
  [][ /\ Len(batches') >= Len(batches)
      /\ (lastResp'.ok /\ lastResp'.earlier) => lastResp'.backpressure
    ]_vars

\* a response reports backpressure after pushes that dropped oldest batches
C34_Witness ==
  /\ lastResp.ok
  /\ lastResp.earlier
  /\ lastResp.backpressure
  /\ max_batches >= 2
  /\ buffer_drops >= 2
  /\ lastResp.lenRespond = max_batches

\* the rows of the insert attempts that are under way
InFlightAttempts ==
  <<IF bgpc = "insert" THEN Range(bgRows) ELSE {},
    IF qpc = "insert" THEN Range(qRows) ELSE {},
    IF sdpc = "insert" THEN Range(sdRows) ELSE {}>>

\* in how many places a row is: pending, one of the insert attempts, the table
PlacesOf(row) ==
  Cardinality({i \in 1..Len(pending) : pending[i] = row})
  + Cardinality({i \in 1..3 : row \in InFlightAttempts[i]})
  + (IF row \in Inserted THEN 1 ELSE 0)

\* in how many successful bulk inserts a row was
InsertsOf(row) ==
  LET RECURSIVE Count(_)
      Count(i) == IF i > Len(insertLog) THEN 0
                  ELSE Cardinality({k \in 1..Len(insertLog[i]) : insertLog[i][k] = row})
                       + Count(i + 1)
  IN Count(1)

\* C35: each row written by write_batch is part of at most one successful bulk
\* insert, and at any moment it is in exactly one of: pending, an in-flight
\* insert attempt, inserted.
C35_RowInExactlyOnePlace ==
  \A row \in 1..nextRow : /\ InsertsOf(row) <= 1
                          /\ PlacesOf(row) = 1

\* the part of C35 the code keeps: a row is never in two places at once and
\* never in two successful bulk inserts
C35_RowInAtMostOnePlace ==
  \A row \in 1..nextRow : /\ InsertsOf(row) <= 1
                          /\ PlacesOf(row) <= 1

\* the step takes rows out of pending
RowsLeavePending == \E i \in 1..Len(pending) : i > Len(pending') \/ pending'[i] # pending[i]

\* the step is a swap-out of the whole pending vector into one insert attempt
SwappedOutBy ==
  {by \in {"bg", "query", "shutdown"} :
     /\ pending' = <<>>
     /\ takeLog' = [takeLog EXCEPT ![by] = @ \cup Range(pending)]
     /\ CASE by = "bg" -> bgpc = "wait" /\ bgpc' = "insert" /\ bgRows' = pending
          [] by = "query" -> qpc = "idle" /\ qpc' = "insert" /\ qRows' = pending
          [] by = "shutdown" -> bgpc = "exited" /\ sdpc' = "insert" /\ sdRows' = pending}

\* C36, as the code has it: every row enqueued is eventually taken out of
\* pending into a bulk-insert attempt, all pending rows at once: by the
\* background task at its next wake (timer, threshold notification or
\* cancellation), unless a query's flush takes them first or, once the task
\* has exited, shutdown's final flush does. An enqueue that brings pending to
\* the threshold stores a notification; a stored notification stays until the
\* background task consumes it in a wake that sweeps pending, also when it was
\* sent while the task was in an insert; and the task exits only on
\* cancellation.
C36_EventuallyFlushed ==
  /\ [][ /\ RowsLeavePending => SwappedOutBy # {}
         /\ (nextRow' # nextRow /\ Len(pending') >= FLUSH_THRESHOLD) => notified'
         /\ (notified /\ ~notified') => /\ bgpc = "wait"
                                        /\ bgLabel' = "threshold"
                                        /\ pending' = <<>>
                                        /\ pending # <<>> => SwappedOutBy = {"bg"}
         /\ (bgpc # "exited" /\ bgpc' = "exited") => cancelled /\ bgLabel' = "shutdown"
       ]_vars
  /\ (pending # <<>>) ~> (pending = <<>>)
  /\ notified ~> (~notified \/ bgpc = "exited")

\* the threshold is reached, and the notification sent, while the background
\* task is in an insert
C36_Witness ==
  /\ bgpc = "insert"
  /\ bgRows = <<1>>
  /\ notified
  /\ Len(pending) >= FLUSH_THRESHOLD
  /\ ~cancelled

\* C36 as stated: it is the background task that takes every enqueued row
\* into a bulk-insert attempt; so a row that has reached the table was taken
\* by it.
C36_TakenByBackgroundTask == \A row \in Inserted : row \in takeLog.bg

\* the rule of the specification: a value of at least 10^15 is nanoseconds
\* and is divided by 10^6, a smaller one is milliseconds and is kept
MillisRule(v) ==
  IF v[1] >= 1000 THEN <<v[1] \div 1000000, v[1] % 1000000, v[2]>> ELSE v

\* the query path follows the rule
C40_QueryPathRule ==
  tsQuery.done =>
    /\ tsQuery.time_start_ns # <<>> => tsQuery.start_ms = <<MillisRule(tsQuery.time_start_ns[1])>>
    /\ tsQuery.time_end_ns # <<>> => tsQuery.end_ms = <<MillisRule(tsQuery.time_end_ns[1])>>

\* C40: the write path (received_at_ns) and the query path (time_start_ns,
\* time_end_ns) convert a timestamp by the same rule: at least 10^15 is divided
\* by 10^6, a smaller value is kept unchanged.
C40_SameRule ==
  /\ \A i \in 1..Len(tsRows) : tsRows[i].received_at_ms = MillisRule(tsRows[i].received_at_ns)
  /\ C40_QueryPathRule

====
